---- MODULE Spec2Model ----
(***************************************************************************)
(* Lesson-pack generator: the bounded self-correction loop of              *)
(* callJsonModel (src/src/agents.ts), the per-file pipeline                *)
(* processSingleFile and the batch loop runPipeline (src/src/pipeline.ts), *)
(* and the exit status set by main (src/src/index.ts).                     *)
(*                                                                         *)
(* Scheduling is single-process and cooperative: a handler runs from the   *)
(* arrival of one awaited result (a model reply, a file read, a remote     *)
(* store answer) up to the next await.  Each action below is one such      *)
(* handler, with every promise continuation it triggers.                   *)
(***************************************************************************)
EXTENDS Integers, Sequences, FiniteSets, TLC

\* ------------------------------------------------------------------ bounds
MaxFiles == 2           \* input files a batch may hold
MaxAttemptsCap == 2     \* largest configured JSON_MAX_ATTEMPTS explored

\* ------------------------------------------------------------- vocabulary
Agents == {"preprocessor", "strategist", "research", "synthesizer"}
Analysts == {"strategist", "research"}

\* The zod schema each agent hands to callJsonModel.
SchemaOf(a) ==
    CASE a = "preprocessor" -> "PreprocessorOutput"
      [] a = "strategist"   -> "StrategistOutput"
      [] a = "research"     -> "ResearchAdjOutput"
      [] a = "synthesizer"  -> "LessonPack"

\* z.enum(["pdf", "markdown", "transcript", "raw-notes"]).nullable()
KindEnum == {"pdf", "markdown", "transcript", "raw-notes", "null"}

\* Input paths are numbered in their sort order; even-numbered paths end in
\* .pdf, the others in .md (the only extensions discoverInputFiles globs).
FileNames == 1..MaxFiles
detectKind(f) == IF f % 2 = 0 THEN "pdf" ELSE "markdown"

NoMeta == [filename |-> 0, kind |-> "null"]
NoValue == [keys |-> "undefined", sources |-> 0, inputMetadata |-> NoMeta,
            from |-> "undefined"]
NoError == [reason |-> "none", detail |-> "", rawContent |-> ""]
NoInput == [filename |-> 0, preprocessor |-> NoValue, strategist |-> NoValue,
            researcher |-> NoValue]

\* ------------------------------------------------- model replies and JSON
\* Reply texts.  "garbage" is not JSON; "{}" is JSON that satisfies no
\* schema; "thin-pack" has the LessonPack keys but only two sources; the
\* others are the JSON documents satisfying one schema each.
GoodContent(schema) ==
    CASE schema = "PreprocessorOutput" -> "pre-json"
      [] schema = "StrategistOutput"   -> "strategist-json"
      [] schema = "ResearchAdjOutput"  -> "research-json"
      [] schema = "LessonPack"         -> "pack-json"

JsonParses(content) == content \notin {"garbage", ""}

\* JSON.parse(content), for a content that parses.
JsonParse(content) ==
    CASE content = "pre-json" ->
           [keys |-> "PreprocessorOutput", sources |-> 0, inputMetadata |-> NoMeta,
            from |-> content]
      [] content = "strategist-json" ->
           [keys |-> "StrategistOutput", sources |-> 0, inputMetadata |-> NoMeta,
            from |-> content]
      [] content = "research-json" ->
           [keys |-> "ResearchAdjOutput", sources |-> 3, inputMetadata |-> NoMeta,
            from |-> content]
      [] content = "pack-json" ->
           [keys |-> "LessonPack", sources |-> 3,
            inputMetadata |-> [filename |-> 0, kind |-> "transcript"],
            from |-> content]
      [] content = "thin-pack" ->
           [keys |-> "LessonPack", sources |-> 2,
            inputMetadata |-> [filename |-> 0, kind |-> "transcript"],
            from |-> content]
      [] OTHER ->
           [keys |-> "none", sources |-> 0, inputMetadata |-> NoMeta,
            from |-> content]

\* Mutant of SchemaAccepts: the LessonPack schema without its minimums.
SchemaAccepts_NoMinimum(schema, value) == value.keys = schema

\* schema.parse(value) succeeds: the value has the schema's keys, and a
\* LessonPack also has sources.min(3) and an inputMetadata.kind of the enum.
SchemaAccepts(schema, value) ==
    /\ value.keys = schema
    /\ schema = "LessonPack" =>
         /\ value.sources >= 3
         /\ value.inputMetadata.kind \in KindEnum

\* One element of an array-valued message content: a string ("string"), an
\* object with a string text ("text"), or anything else, whose payload is
\* not text.
Part(type, text) == [type |-> type, text |-> text]

Reply(msg, content, parts) == [msg |-> msg, content |-> content, parts |-> parts]

\* The completions a model call can end in: the request rejects ("throw"),
\* the completion has no message ("none"), or it has a message whose content
\* is a string (not JSON, JSON the schema rejects, JSON the schema accepts),
\* an array of parts (here: the accepted JSON in two pieces around an image
\* part), or neither, such as null ("other").
Replies(a) ==
    LET good == GoodContent(SchemaOf(a)) IN
    {Reply("throw", "", <<>>), Reply("none", "", <<>>), Reply("other", "", <<>>)}
    \cup {Reply("string", c, <<>>) :
            c \in {"garbage", IF a = "synthesizer" THEN "thin-pack" ELSE "{}", good}}
    \cup {Reply("parts", "",
                <<Part("string", SubSeq(good, 1, 3)), Part("image", "png"),
                  Part("text", SubSeq(good, 4, Len(good)))>>)}

\* Mutant of joinParts: the parts are joined last to first.
RECURSIVE joinParts_Reversed(_)
joinParts_Reversed(parts) ==
    IF parts = <<>> THEN ""
    ELSE joinParts_Reversed(Tail(parts))
            \o (IF Head(parts).type \in {"string", "text"} THEN Head(parts).text ELSE "")

\* rawContent.map(part => ...).join(""): a string part is itself, a part
\* with a string text is that text, any other part is "".
RECURSIVE joinParts(_)
joinParts(parts) ==
    IF parts = <<>> THEN ""
    ELSE (IF Head(parts).type \in {"string", "text"} THEN Head(parts).text ELSE "")
            \o joinParts(Tail(parts))

extractMessageContent(message) ==
    IF message.msg = "string" THEN message.content
    ELSE IF message.msg # "parts" THEN ""
    ELSE joinParts(message.parts)


\* ------------------------------------------------------- callJsonModel
\* One callJsonModel invocation: st is "idle" (not called), "inflight" (a
\* model call is awaited), "returned" or "failed"; attempt is the loop
\* variable, calls counts client.chat.completions.create invocations and
\* replies lists the completions received so far (both are history).
\* frame tells whether the invocation's locals (attempt, messages, the
\* prompt input, replies) still exist: they do while it runs and in the
\* state in which it settles, and are gone after the next handler.
IdleGen ==
    [st |-> "idle", attempt |-> 0, calls |-> 0, messages |-> <<>>,
     value |-> NoValue, error |-> NoError, schema |-> "none", input |-> NoInput,
     replies |-> <<>>, frame |-> FALSE]

\* A settled invocation of an earlier file, after its frame has been dropped.
ReleasedGen == [IdleGen EXCEPT !.st = "released"]

ChatMessage(role, content) == [role |-> role, content |-> content]

\* The error's issues (a ZodError) when present, else its message.
detailOf(schema, content) ==
    IF ~JsonParses(content) THEN "SyntaxError"
    ELSE IF JsonParse(content).keys = schema THEN "issues:too_small"
    ELSE "issues:invalid_type"

\* for (let attempt = ...; attempt <= maxAttempts; ...) { await create(...) }:
\* the loop test and, when it passes, the next model call; after the loop the
\* trailing throw.
enterAttempt(g, maxAttempts) ==
    IF g.attempt <= maxAttempts
    THEN [g EXCEPT !.st = "inflight", !.calls = @ + 1]
    ELSE [g EXCEPT !.st = "failed",
                   !.error = [reason |-> "no-valid-response", detail |-> "",
                              rawContent |-> ""]]

\* Entry of callJsonModel up to its first await.
callJsonModelStart(schema, input, maxAttempts) ==
    enterAttempt(
        [IdleGen EXCEPT !.schema = schema, !.input = input, !.attempt = 1,
                        !.frame = TRUE,
                        !.messages = <<ChatMessage("system", schema),
                                       ChatMessage("user", "userPrompt")>>],
        maxAttempts)

\* await client.chat.completions.create(...) rejects: not inside the try.
onTransportError(g, maxAttempts) ==
    [g EXCEPT !.st = "failed",
              !.error = [reason |-> "transport", detail |-> "", rawContent |-> ""]]

\* Mutant of onNoMessage: a missing message is retried like an invalid reply.
onNoMessage_Retried(g, maxAttempts) ==
    enterAttempt([g EXCEPT !.attempt = @ + 1], maxAttempts)

\* completion.choices[0]?.message is missing.
onNoMessage(g, maxAttempts) ==
    [g EXCEPT !.st = "failed",
              !.error = [reason |-> "empty-response", detail |-> "", rawContent |-> ""]]

\* Mutant of onValid: the validated value is kept but the loop goes on.
onValid_KeepsAsking(g, content) ==
    [g EXCEPT !.value = JsonParse(content), !.attempt = @ + 1, !.calls = @ + 1]

\* return schema.parse(parsed)
onValid(g, content) ==
    [g EXCEPT !.st = "returned", !.value = JsonParse(content)]

\* Mutant of isFinalAttempt: gives up one attempt early.
isFinalAttempt_OneEarly(attempt, maxAttempts) == attempt >= maxAttempts - 1

\* attempt === maxAttempts
isFinalAttempt(attempt, maxAttempts) == attempt = maxAttempts

\* Mutant of onInvalid: the correction request is appended without the
\* reply it answers.
onInvalid_ReplyNotReplayed(g, content, maxAttempts) ==
    LET detail == detailOf(g.schema, content) IN
    IF isFinalAttempt(g.attempt, maxAttempts)
    THEN [g EXCEPT !.st = "failed",
                   !.error = [reason |-> "invalid-output", detail |-> detail,
                              rawContent |-> content]]
    ELSE enterAttempt(
            [g EXCEPT !.messages = Append(@, ChatMessage("user", detail)),
                      !.attempt = @ + 1],
            maxAttempts)

\* The catch block: the final attempt throws, any other appends the reply
\* and the correction request and goes round the loop.
onInvalid(g, content, maxAttempts) ==
    LET detail == detailOf(g.schema, content) IN
    IF isFinalAttempt(g.attempt, maxAttempts)
    THEN [g EXCEPT !.st = "failed",
                   !.error = [reason |-> "invalid-output", detail |-> detail,
                              rawContent |-> content]]
    ELSE enterAttempt(
            [g EXCEPT !.messages = @ \o <<ChatMessage("assistant", content),
                                          ChatMessage("user", detail)>>,
                      !.attempt = @ + 1],
            maxAttempts)

\* The continuation of callJsonModel when the awaited completion arrives.
callJsonModelOnReply(g0, reply, maxAttempts) ==
    LET g == [g0 EXCEPT !.replies = Append(@, reply)] IN
    IF reply.msg = "throw" THEN onTransportError(g, maxAttempts)
    ELSE IF reply.msg = "none" THEN onNoMessage(g, maxAttempts)
    ELSE LET content == extractMessageContent(reply) IN
         IF JsonParses(content) /\ SchemaAccepts(g.schema, JsonParse(content))
         THEN onValid(g, content)
         ELSE onInvalid(g, content, maxAttempts)


\* ------------------------------------------------------------- pipeline
\* Mutant of promiseAll: Promise.race, the first fulfilment wins.
promiseAll_Race(mine, other) ==
    IF mine.st = "failed" THEN "rejected"
    ELSE IF mine.st = "returned" THEN "fulfilled"
    ELSE "pending"

\* Mutant of promiseAll: Promise.allSettled with the rejections ignored.
promiseAll_IgnoresRejection(mine, other) ==
    IF mine.st \in {"returned", "failed"} /\ other.st \in {"returned", "failed"}
    THEN "fulfilled" ELSE "pending"

\* Mutant of promiseAll: only the strategist's promise is awaited.
promiseAll_StrategistOnly(mine, other) ==
    IF mine.st = "failed" THEN "rejected"
    ELSE IF \/ mine.st = "returned" /\ mine.schema = "StrategistOutput"
            \/ mine.st = "returned" /\ other.st = "returned"
    THEN "fulfilled"
    ELSE "pending"

\* Promise.all over the two analysis generations, seen from the handler in
\* which generation `mine` has just moved while `other` is as it was: it
\* rejects on the first rejection and fulfils once both have returned.
promiseAll(mine, other) ==
    IF mine.st = "failed" THEN "rejected"
    ELSE IF mine.st = "returned" /\ other.st = "returned" THEN "fulfilled"
    ELSE "pending"

\* buildAgentInput(doc): the user prompt data of the preprocessor agent.
buildAgentInput(file) == [NoInput EXCEPT !.filename = file]

\* normalizedInput: the analysts read the preprocessor's output.
normalizedInput(file, pre) == [NoInput EXCEPT !.filename = file, !.preprocessor = pre]

\* The user prompt data of runSynthesisAgent.
synthesisInput(file, pre, strategist, researcher) ==
    [filename |-> file, preprocessor |-> pre, strategist |-> strategist,
     researcher |-> researcher]

\* Mutant of stampMetadata: the pack keeps the metadata the model returned.
stampMetadata_KeepsReturned(pack, file) == pack

\* { ...pack, inputMetadata: { filename: doc.filename, kind: doc.kind } }
stampMetadata(pack, file) ==
    [pack EXCEPT !.inputMetadata = [filename |-> file, kind |-> detectKind(file)]]

\* LessonPack.parse(stamped) does not throw.
finalizeAccepts(stamped) == SchemaAccepts("LessonPack", stamped)

\* error is (error as Error).message, kept here as the failure's reason.
FileProcessingResult(file, success, error, url) ==
    [file |-> file, success |-> success, error |-> error.reason, googleDocUrl |-> url]

\* files.sort()
discoverInputFiles(glob) == SortSeq(glob, LAMBDA a, b : a < b)

\* main: process.exitCode after the summary of a non-empty result list.
mainExitCode(rs) ==
    IF Cardinality({k \in DOMAIN rs : ~rs[k].success}) > 0 THEN 1 ELSE 0

\* What globby can hand back: the matching paths, each once, in any order.
GlobResults ==
    {s \in UNION {[1..n -> FileNames] : n \in 0..MaxFiles} :
        \A i, j \in DOMAIN s : i # j => s[i] # s[j]}

Positions == 1..MaxFiles

IdlePub == [st |-> "idle", calls |-> 0, pack |-> NoValue]


\* ------------------------------------------------------------ withRetry
\* const { maxRetries = 4, baseDelay = 1000 } = options
maxRetriesDefault == 4
baseDelayDefault == 1000

MaxRetriesCap == 4      \* largest maxRetries option explored
BaseDelays == {baseDelayDefault, 250}

\* What a rejected remote call throws: code is error.code (0 when absent),
\* message is error.message.
RemoteError(code, message) == [code |-> code, message |-> message]
NoRemoteError == RemoteError(0, "")
RemoteErrors ==
    {RemoteError(c, "http") : c \in {400, 403, 429, 499, 500, 503, 599, 600}}
    \cup {RemoteError(0, m) : m \in {"ECONNRESET", "ETIMEDOUT", "EACCES"}}

\* Mutant of isRetryable: only the rate limit and 503 are retried.
isRetryable_NoServerRange(error) ==
    \/ error.code = 429
    \/ error.code = 503
    \/ error.message = "ECONNRESET"
    \/ error.message = "ETIMEDOUT"

\* The catch block's isRetryable.
isRetryable(error) ==
    \/ error.code = 429
    \/ error.code = 503
    \/ (error.code >= 500 /\ error.code < 600)
    \/ error.message = "ECONNRESET"
    \/ error.message = "ETIMEDOUT"

\* Math.pow(2, n) for the exponents a frame can reach.
RECURSIVE pow2(_)
pow2(n) == IF n <= 0 THEN 1 ELSE 2 * pow2(n - 1)

\* Mutant of retryDelay: a constant delay.
retryDelay_Constant(baseDelay, attempt) == baseDelay

\* const delay = baseDelay * Math.pow(2, attempt - 1)
retryDelay(baseDelay, attempt) == baseDelay * pow2(attempt - 1)

\* const isLastAttempt = attempt === maxRetries + 1
isLastAttempt(attempt, maxRetries) == attempt = maxRetries + 1

\* One withRetry invocation: st is "idle", "calling" (fn() is awaited),
\* "waiting" (the setTimeout promise is awaited), "returned" or "threw";
\* invocations counts the fn() calls and delays lists the setTimeout delays
\* requested so far (both are history).
IdleRetry ==
    [st |-> "idle", maxRetries |-> 0, baseDelay |-> 0, attempt |-> 0,
     invocations |-> 0, delays |-> <<>>, error |-> NoRemoteError]

\* The for-loop test and, when it passes, the call of fn(); after the loop
\* the trailing throw.
retryAttempt(f) ==
    IF f.attempt <= f.maxRetries + 1
    THEN [f EXCEPT !.st = "calling", !.invocations = @ + 1]
    ELSE [f EXCEPT !.st = "threw", !.error = RemoteError(0, "Retry logic failed unexpectedly")]

\* Entry of withRetry up to its first await.
withRetryStart(maxRetries, baseDelay) ==
    retryAttempt([IdleRetry EXCEPT !.maxRetries = maxRetries,
                                   !.baseDelay = baseDelay, !.attempt = 1])

\* return await fn() fulfils.
withRetryOnOk(f) == [f EXCEPT !.st = "returned"]

\* await fn() rejects: the catch block.
withRetryOnError(f, error) ==
    IF ~isRetryable(error) \/ isLastAttempt(f.attempt, f.maxRetries)
    THEN [f EXCEPT !.st = "threw", !.error = error]
    ELSE [f EXCEPT !.st = "waiting",
                   !.delays = Append(@, retryDelay(f.baseDelay, f.attempt))]

\* Mutant of withRetryOnTimer: the loop goes round without attempt++.
withRetryOnTimer_SameAttempt(f) == retryAttempt(f)

\* The setTimeout promise resolves: attempt++ and round the loop.
withRetryOnTimer(f) == retryAttempt([f EXCEPT !.attempt = @ + 1])

\* A withRetry invocation as its caller sees it: the frame f, and as
\* history the error of the latest rejection of fn(), the number of
\* rejections and whether all of them were transient.
IdleCall == [f |-> IdleRetry, lastError |-> NoRemoteError, failures |-> 0,
             allTransient |-> TRUE]

\* ----------------------------------------------------------- LessonPack
\* The records of schemas.ts on the fields buildRequests reads.
SourceLink(title, note) ==
    [title |-> title, url |-> "https://e.org/" \o title, note |-> note]

Example(label) ==
    [label |-> label, whatHappened |-> "what", whyItMatters |-> "why",
     howToUse |-> <<"use">>, sources |-> <<SourceLink("s", "")>>]

\* An argument with only its required fields, and one with every optional
\* field filled in.
PlainArgument(claim) ==
    [claim |-> claim, mechanism |-> "mech", impacts |-> <<"impact">>,
     stakeholders |-> <<>>, comparative |-> "", preempts |-> <<>>,
     examples |-> <<>>]
FullArgument(claim) ==
    [claim |-> claim, mechanism |-> "mech", impacts |-> <<"harm", "gain">>,
     stakeholders |-> <<"voters">>, comparative |-> "status quo",
     preempts |-> <<"reply">>, examples |-> <<Example("ex1"), Example("ex2")>>]

ArgumentLists ==
    {<<>>, <<PlainArgument("A")>>, <<FullArgument("A")>>,
     <<PlainArgument("A"), FullArgument("B")>>}

\* firstPrinciples.tests: null, or an array.
TestsValues == {[null |-> TRUE, items |-> <<>>], [null |-> FALSE, items |-> <<>>],
                [null |-> FALSE, items |-> <<"proportionality">>]}

\* The records rendered: o chooses which optional parts are there.
LessonPackOf(o) ==
    [title |-> o.title,
     motionOrTopic |-> IF o.motion THEN "This house would" ELSE "",
     context |-> IF o.context THEN "background" ELSE "",
     firstPrinciples |->
        [burden |-> "burden", metric |-> "metric",
         assumptions |-> IF o.lists THEN <<"a1", "a2">> ELSE <<>>,
         theories |-> IF o.lists THEN <<"utility">> ELSE <<>>,
         tests |-> o.tests],
     govCase |-> o.govCase,
     oppCase |-> <<PlainArgument("O")>>,
     counterCases |-> IF o.optionals THEN <<PlainArgument("C")>> ELSE <<>>,
     extensions |-> IF o.lists THEN <<"ext">> ELSE <<>>,
     rebuttalLadders |->
        IF o.optionals
        THEN <<[target |-> "A", ladder |-> <<"step1", "step2">>],
               [target |-> "O", ladder |-> <<>>]>>
        ELSE <<>>,
     weighing |->
        [method |-> "magnitude",
         adjudicatorNotes |-> IF o.lists THEN <<"note">> ELSE <<>>,
         commonPitfalls |-> IF o.lists THEN <<"pitfall">> ELSE <<>>,
         POIAdvice |-> IF o.optionals THEN <<"poi">> ELSE <<>>,
         whipAdvice |-> IF o.optionals THEN <<"whip">> ELSE <<>>],
     drills |-> IF o.lists THEN <<"drill1", "drill2">> ELSE <<>>,
     glossary |-> IF o.optionals THEN <<[term |-> "POI", def |-> "point"]>> ELSE <<>>,
     examplesBank |->
        IF o.bank THEN <<Example("e1"), Example("e2"), Example("e3")>> ELSE <<>>,
     sources |-> <<SourceLink("s1", ""), SourceLink("s2", "n"), SourceLink("s3", "")>>,
     inputMetadata |-> [filename |-> o.filename, kind |-> IF o.filename = 0 THEN "null" ELSE detectKind(o.filename)]]

PackOptions ==
    [title : {"Environment"}, motion : BOOLEAN, context : BOOLEAN, lists : BOOLEAN,
     optionals : BOOLEAN, bank : BOOLEAN, tests : TestsValues,
     govCase : ArgumentLists, filename : {0, 1}]

RenderPacks == {LessonPackOf(o) : o \in PackOptions}

\* LessonPack.parse accepts the record (the array minimums of schemas.ts).
ValidLessonPack(pack) ==
    /\ Len(pack.govCase) >= 1
    /\ Len(pack.oppCase) >= 1
    /\ Len(pack.examplesBank) >= 3
    /\ Len(pack.sources) >= 3

\* ----------------------------------------------------------- DocsBuilder
\* Text is a string; its length is JavaScript's .length.  A request keeps
\* the fields of the Docs request it stands for: insertText has location
\* index startIndex and the text, the others a range and what they set.
DocsRequest(kind, startIndex, endIndex, text, style) ==
    [kind |-> kind, startIndex |-> startIndex, endIndex |-> endIndex,
     text |-> text, style |-> style]
insertText(index, text) == DocsRequest("insertText", index, 0, text, "")
updateParagraphStyle(startIndex, endIndex, level) ==
    DocsRequest("updateParagraphStyle", startIndex, endIndex, "",
                "HEADING_" \o ToString(level))
createParagraphBullets(startIndex, endIndex) ==
    DocsRequest("createParagraphBullets", startIndex, endIndex, "",
                "BULLET_DISC_CIRCLE_SQUARE")

\* new DocsBuilder(): index = 1, requests = [].
DocsBuilder == [index |-> 1, requests |-> <<>>]

getRequests(builder) == builder.requests

\* Mutant of addHeading: the cursor moves by the text without its newline.
addHeading_NewlineNotCounted(builder, level, text) ==
    LET headingText == text \o "\n" IN
    [index |-> builder.index + Len(text),
     requests |-> builder.requests \o
        <<insertText(builder.index, headingText),
          updateParagraphStyle(builder.index, builder.index + Len(headingText), level)>>]

addHeading(builder, level, text) ==
    LET headingText == text \o "\n" IN
    [index |-> builder.index + Len(headingText),
     requests |-> builder.requests \o
        <<insertText(builder.index, headingText),
          updateParagraphStyle(builder.index, builder.index + Len(headingText), level)>>]

\* Mutant of addParagraph: the cursor moves by the text without its newline.
addParagraph_NewlineNotCounted(builder, text) ==
    LET paragraphText == IF Len(text) > 0 THEN text \o "\n" ELSE "\n" IN
    [index |-> builder.index + Len(text),
     requests |-> Append(builder.requests, insertText(builder.index, paragraphText))]

addParagraph(builder, text) ==
    LET paragraphText == IF Len(text) > 0 THEN text \o "\n" ELSE "\n" IN
    [index |-> builder.index + Len(paragraphText),
     requests |-> Append(builder.requests, insertText(builder.index, paragraphText))]

\* items.map((item) => `${item}\n`).join("")
RECURSIVE joinLines(_)
joinLines(items) ==
    IF items = <<>> THEN "" ELSE Head(items) \o "\n" \o joinLines(Tail(items))

\* Mutant of addBulletList: no early return on an empty list.
addBulletList_EmptyEmits(builder, items) ==
    LET textBlock == joinLines(items)
        startIndex == builder.index
    IN
    [index |-> builder.index + Len(textBlock),
     requests |-> builder.requests \o
        <<insertText(builder.index, textBlock),
          createParagraphBullets(startIndex, startIndex + Len(textBlock))>>]

\* Mutant of addBulletList: the list range ends one index past the block.
addBulletList_RangePastBlock(builder, items) ==
    IF Len(items) = 0 THEN builder
    ELSE LET textBlock == joinLines(items)
             startIndex == builder.index
         IN
         [index |-> builder.index + Len(textBlock),
          requests |-> builder.requests \o
             <<insertText(builder.index, textBlock),
               createParagraphBullets(startIndex, startIndex + Len(textBlock) + 1)>>]

addBulletList(builder, items) ==
    IF Len(items) = 0 THEN builder
    ELSE LET textBlock == joinLines(items)
             startIndex == builder.index
         IN
         [index |-> builder.index + Len(textBlock),
          requests |-> builder.requests \o
             <<insertText(builder.index, textBlock),
               createParagraphBullets(startIndex, startIndex + Len(textBlock))>>]

\* items.forEach((item, index) => ...): callback names the arrow function,
\* and each(callback, builder, item, index) is the builder after it ran on
\* item, index counting from 0.
RECURSIVE each(_, _, _, _)
forEach(builder, items, callback) ==
    LET after[k \in 0..Len(items)] ==
            IF k = 0 THEN builder
            ELSE LET before == after[k - 1] IN
                 IF before.index >= 1 THEN each(callback, before, items[k], k - 1)
                 ELSE before
    IN after[Len(items)]

\* if (x && x.length) { addParagraph(label); addBulletList(x) }
labelledList(builder, label, items) ==
    IF Len(items) > 0
    THEN addBulletList(addParagraph(builder, label), items)
    ELSE builder

\* if (x) { addParagraph(text) }
paragraphIf(builder, present, text) ==
    IF present THEN addParagraph(builder, text) ELSE builder

\* if (x.length) { addHeading(2, heading); addBulletList(x) }
headedList(builder, heading, items) ==
    IF Len(items) > 0
    THEN addBulletList(addHeading(builder, 2, heading), items)
    ELSE builder

\* if (x && x.length) { addHeading(2, heading); x.forEach(callback) }
headedEach(builder, heading, items, callback) ==
    IF Len(items) > 0
    THEN forEach(addHeading(builder, 2, heading), items, callback)
    ELSE builder

\* Mutant of caseHeadingLabels: the two labels change places.
caseHeadingLabels_Swapped(format) ==
    IF format = "AUS"
    THEN [gov |-> "Negative Case", opp |-> "Affirmative Case"]
    ELSE [gov |-> "Opposition Case", opp |-> "Government Case"]

\* caseHeadingLabels(), for the value of appConfig.format.
caseHeadingLabels(format) ==
    IF format = "AUS"
    THEN [gov |-> "Affirmative Case", opp |-> "Negative Case"]
    ELSE [gov |-> "Government Case", opp |-> "Opposition Case"]

\* An example inside an argument: label and what happened, why it matters.
\* (The source joins label and text with an en dash, one code unit.)
argumentExample(builder, example, index) ==
    addParagraph(
        addParagraph(builder, example.label \o " - " \o example.whatHappened),
        "Why it matters: " \o example.whyItMatters)

\* The numbering of an argument's level-3 heading.
argumentHeading_FromZero(index, argument) ==
    ToString(index) \o ". " \o argument.claim

argumentHeading(index, argument) ==
    ToString(index + 1) \o ". " \o argument.claim

\* if (argument.examples && argument.examples.length) { ... forEach ... }
argumentExamples(builder, examples) ==
    IF Len(examples) > 0
    THEN forEach(addParagraph(builder, "Examples:"), examples, "argumentExample")
    ELSE builder

\* The forEach callback of formatArgumentSection.  A null or absent
\* optional field is the empty sequence or string here: the code tests
\* them with `x && x.length` and `if (x)`, which treat both alike.
formatArgument(builder, argument, index) ==
    LET b1 == addHeading(builder, 3, argumentHeading(index, argument))
        b2 == addParagraph(b1, "Mechanism: " \o argument.mechanism)
        b3 == addBulletList(addParagraph(b2, "Impacts:"), argument.impacts)
        b4 == labelledList(b3, "Stakeholders affected:", argument.stakeholders)
        b5 == paragraphIf(b4, argument.comparative # "",
                          "Comparative: " \o argument.comparative)
        b6 == labelledList(b5, "Pre-empts:", argument.preempts)
        b7 == argumentExamples(b6, argument.examples)
    IN b7

formatArgumentSection(builder, heading, items) ==
    LET b1 == addHeading(builder, 2, heading) IN
    IF Len(items) = 0
    THEN addParagraph(b1, "(no content)")
    ELSE forEach(b1, items, "formatArgument")

\* The forEach callbacks of buildRequests.
rebuttalLadder(builder, ladder, index) ==
    addBulletList(addHeading(builder, 3, ladder.target), ladder.ladder)

glossaryItem(builder, item, index) ==
    addParagraph(builder, item.term \o ": " \o item.def)

bankExample(builder, example, index) ==
    LET b1 == addParagraph(builder, example.label)
        b2 == addParagraph(b1, "What happened: " \o example.whatHappened)
        b3 == addParagraph(b2, "Why it matters: " \o example.whyItMatters)
    IN
    addBulletList(addParagraph(b3, "How to use:"), example.howToUse)

sourceLine(builder, source, index) ==
    paragraphIf(addParagraph(builder, source.title \o " - " \o source.url),
                source.note # "", "Note: " \o source.note)

\* The arrow function a forEach call is given, applied.
each(callback, builder, item, index) ==
    CASE callback = "formatArgument" -> formatArgument(builder, item, index)
      [] callback = "argumentExample" -> argumentExample(builder, item, index)
      [] callback = "rebuttalLadder" -> rebuttalLadder(builder, item, index)
      [] callback = "glossaryItem" -> glossaryItem(builder, item, index)
      [] callback = "bankExample" -> bankExample(builder, item, index)
      [] callback = "sourceLine" -> sourceLine(builder, item, index)

\* `Input file: ${pack.inputMetadata.filename}`: path number k prints as k.
filenameText(filename) == IF filename = 0 THEN "" ELSE ToString(filename)

\* if (pack.firstPrinciples.tests) { addParagraph("Tests:"); addBulletList(tests) }
testsList(builder, tests) ==
    IF ~tests.null
    THEN addBulletList(addParagraph(builder, "Tests:"), tests.items)
    ELSE builder

\* if (pack.counterCases && pack.counterCases.length) { formatArgumentSection(...) }
counterCasesSection(builder, counterCases) ==
    IF Len(counterCases) > 0
    THEN formatArgumentSection(builder, "Counter Cases", counterCases)
    ELSE builder

\* buildRequests up to its return, section by section.  A section is added
\* to a builder whose cursor is at 1 or beyond, which is every builder;
\* asking for the cursor first has the sections evaluated in document order.
\* firstPrinciples.tests is [null, items]: `if (tests)` holds for an empty
\* array too.
titleSection(pack) ==
    LET b1 == addHeading(DocsBuilder, 1, pack.title)
        b2 == paragraphIf(b1, pack.motionOrTopic # "", "Motion: " \o pack.motionOrTopic)
    IN paragraphIf(b2, pack.context # "", "Context: " \o pack.context)

firstPrinciplesSection(builder, fp) ==
    IF builder.index < 1 THEN builder
    ELSE LET b4 == addParagraph(
                       addParagraph(addHeading(builder, 2, "First Principles"),
                                    "Burden: " \o fp.burden),
                       "Metric: " \o fp.metric)
             b5 == labelledList(b4, "Assumptions:", fp.assumptions)
             b6 == labelledList(b5, "Theories:", fp.theories)
         IN testsList(b6, fp.tests)

govSection(builder, pack, labels) ==
    IF builder.index < 1 THEN builder
    ELSE formatArgumentSection(builder, labels.gov, pack.govCase)

oppSection(builder, pack, labels) ==
    IF builder.index < 1 THEN builder
    ELSE formatArgumentSection(builder, labels.opp, pack.oppCase)

counterAndExtensionSections(builder, pack) ==
    IF builder.index < 1 THEN builder
    ELSE LET b10 == counterCasesSection(builder, pack.counterCases)
             b11 == headedList(b10, "Extensions", pack.extensions)
         IN headedEach(b11, "Rebuttal Ladders", pack.rebuttalLadders, "rebuttalLadder")

weighingSection(builder, w) ==
    IF builder.index < 1 THEN builder
    ELSE LET b13 == addParagraph(addHeading(builder, 2, "Weighing"),
                                 "Method: " \o w.method)
             b14 == labelledList(b13, "Adjudicator Notes:", w.adjudicatorNotes)
             b15 == labelledList(b14, "Common Pitfalls:", w.commonPitfalls)
             b16 == labelledList(b15, "POI Advice:", w.POIAdvice)
         IN labelledList(b16, "Whip Advice:", w.whipAdvice)

drillsAndGlossarySections(builder, pack) ==
    IF builder.index < 1 THEN builder
    ELSE headedEach(headedList(builder, "Drills", pack.drills),
                    "Glossary", pack.glossary, "glossaryItem")

examplesBankSection(builder, pack) ==
    IF builder.index < 1 THEN builder
    ELSE headedEach(builder, "Examples Bank", pack.examplesBank, "bankExample")

sourcesSection(builder, pack) ==
    IF builder.index < 1 THEN builder
    ELSE forEach(addHeading(builder, 2, "Sources"), pack.sources, "sourceLine")

inputFileLine(builder, pack) ==
    IF builder.index < 1 THEN builder
    ELSE paragraphIf(builder, pack.inputMetadata.filename # 0,
                     "Input file: " \o filenameText(pack.inputMetadata.filename))

builtFrom(pack, format) ==
    inputFileLine(
      sourcesSection(
        examplesBankSection(
          drillsAndGlossarySections(
            weighingSection(
              counterAndExtensionSections(
                oppSection(
                  govSection(
                    firstPrinciplesSection(titleSection(pack), pack.firstPrinciples),
                    pack, caseHeadingLabels(format)),
                  pack, caseHeadingLabels(format)),
                pack),
              pack.weighing),
            pack),
          pack),
        pack),
      pack)

\* return builder.getRequests()
buildRequests(pack, format) == getRequests(builtFrom(pack, format))


\* ---------------------------------------------------- publishLessonPack
MaxPublishers == 2      \* publishLessonPack invocations against one store
Publishers == 1..MaxPublishers

\* The records handed to publishLessonPack: two titles, and the content of
\* publisher p arriving under source filename p.
Titles == {"Environment", "Trade"}
PubPack(title, filename) ==
    LessonPackOf([title |-> title, motion |-> TRUE, context |-> FALSE,
                  lists |-> FALSE, optionals |-> FALSE, bank |-> TRUE,
                  tests |-> [null |-> TRUE, items |-> <<>>],
                  govCase |-> <<PlainArgument("A")>>, filename |-> filename])
PubPacks(p) == {PubPack(t, p) : t \in Titles}
NoPack == PubPack("", 0)

\* Mutant of generateContentFingerprint: the input metadata is hashed too.
generateContentFingerprint_WithMetadata(pack) ==
    <<pack.title, pack.motionOrTopic, pack.context, pack.govCase, pack.oppCase,
      pack.inputMetadata.filename>>

\* sha256 of JSON.stringify({title, motionOrTopic, context, govCase,
\* oppCase}): the digest stands for the string hashed, field by field.
generateContentFingerprint(pack) ==
    <<pack.title, pack.motionOrTopic, pack.context, pack.govCase, pack.oppCase>>

\* Mutant of NewDoc: the fingerprint property is not set.
NewDoc_Unstamped(fingerprint) == [appProperties |-> <<>>, body |-> ""]

\* The document drive.files.create makes: empty, with the fingerprint
\* property.  body is the document's text without its final newline.
NewDoc(fingerprint) == [appProperties |-> fingerprint, body |-> ""]

\* Mutant of endIndexOf: the document always looks empty.
endIndexOf_Empty(doc) == 1

\* What documents.get reports as the endIndex of the last body element:
\* the text starts at index 1 and ends with the document's final newline.
endIndexOf(doc) == Len(doc.body) + 2

\* deleteContentRange over [startIndex, endIndex) of the text.
deleteContentRange(body, startIndex, endIndex) ==
    IF endIndex <= startIndex THEN body
    ELSE SubSeq(body, 1, startIndex - 1) \o SubSeq(body, endIndex, Len(body))

\* A document while a batch is applied to it: its text, and whether a
\* request of the batch was refused.
Applying(body) == [refused |-> FALSE, body |-> body]

\* One request of a batch applied to the text.  An insertion needs its
\* index inside the text or at its end; style and bullet requests leave
\* the text as it is.
applyRequest(doc, request) ==
    IF doc.refused \/ request.kind # "insertText" THEN doc
    ELSE IF request.startIndex > Len(doc.body) + 1 THEN [doc EXCEPT !.refused = TRUE]
    ELSE [doc EXCEPT !.body =
            SubSeq(doc.body, 1, request.startIndex - 1) \o request.text
                \o SubSeq(doc.body, request.startIndex, Len(doc.body))]

\* The requests of a batch applied in order (the first half of the batch,
\* then the second), up to the first one refused.
RECURSIVE applyRequests(_, _)
applyRequests(doc, requests) ==
    IF requests = <<>> THEN doc
    ELSE IF Len(requests) = 1 THEN applyRequest(doc, requests[1])
    ELSE LET half == Len(requests) \div 2
             first == applyRequests(doc, SubSeq(requests, 1, half))
         IN
         IF first.refused THEN first
         ELSE applyRequests(first, SubSeq(requests, half + 1, Len(requests)))

\* documents.batchUpdate is atomic: the text after all the requests, or the
\* text as it was when one of them is refused.
batchUpdate(body, requests) ==
    LET done == applyRequests(Applying(body), requests) IN
    IF done.refused THEN body ELSE done.body

\* The position of a batch as the store applies it request by request: at
\* counts the requests applied, doc is the document as it stands.
NotApplying == [at |-> 0, doc |-> Applying("")]

\* ---------------------------------------------------- insertAndFillTable
\* The requests insertAndFillTable makes besides insertText.
insertTable(index, rows, columns) ==
    [kind |-> "insertTable", startIndex |-> index, endIndex |-> 0, text |-> "",
     style |-> "", rows |-> rows, columns |-> columns]
updateTextStyle(startIndex, endIndex) ==
    DocsRequest("updateTextStyle", startIndex, endIndex, "", "bold")

\* The document insertAndFillTable writes to: body is the text in front of
\* the table, cells[r][c] the text of a cell without its final newline (no
\* rows: no table) and ends with the newline that an insertTable request
\* puts in front of the table; tableStart is the startIndex of the table
\* element.
TableDoc(body, tableStart, cells) ==
    [body |-> body, tableStart |-> tableStart, cells |-> cells]
NoTableDoc == TableDoc("", 0, <<>>)

\* The table an insertTable request makes: every cell holds an empty
\* paragraph.
EmptyCells(rows, columns) == [r \in 1..rows |-> [c \in 1..columns |-> ""]]

\* The indexes a run of cells and a run of rows take up: one for the row,
\* one for each cell, and each cell's paragraph with its newline.
RECURSIVE cellsLength(_)
cellsLength(row) ==
    IF row = <<>> THEN 0 ELSE 2 + Len(Head(row)) + cellsLength(Tail(row))
RECURSIVE rowsLength(_)
rowsLength(rows) ==
    IF rows = <<>> THEN 0 ELSE 1 + cellsLength(Head(rows)) + rowsLength(Tail(rows))

\* tableRows[r].tableCells[c].startIndex as documents.get reports it for
\* the document as it stands (r, c counted from 1): the cell's paragraph
\* begins one index later.
cellStartIndex(doc, r, c) ==
    doc.tableStart + 1 + rowsLength(SubSeq(doc.cells, 1, r - 1))
        + 1 + cellsLength(SubSeq(doc.cells[r], 1, c - 1))

\* tableEl.table.tableRows of the response, each cell by its startIndex.
tableRowsOf(doc) ==
    [r \in DOMAIN doc.cells |->
        [c \in DOMAIN doc.cells[r] |-> cellStartIndex(doc, r, c)]]

\* tableEl.table?.tableRows?.[row]?.tableCells?.[col]?.startIndex ?? 0,
\* row and col counted from 0 as in the source.
startIndexOrZero(tableRows, row, col) ==
    IF row + 1 \in DOMAIN tableRows /\ col + 1 \in DOMAIN tableRows[row + 1]
    THEN tableRows[row + 1][col + 1]
    ELSE 0

\* headers.forEach((header, col) => ...), from column col on.
RECURSIVE headerFill(_, _, _)
headerFill(tableRows, headers, col) ==
    IF col >= Len(headers) THEN <<>>
    ELSE <<insertText(startIndexOrZero(tableRows, 0, col) + 1, headers[col + 1]),
           updateTextStyle(startIndexOrZero(tableRows, 0, col) + 1,
                           startIndexOrZero(tableRows, 0, col) + 1
                               + Len(headers[col + 1]))>>
         \o headerFill(tableRows, headers, col + 1)

\* row.forEach((text, col) => ...), from column col on.
RECURSIVE rowFill(_, _, _, _)
rowFill(tableRows, row, rowIdx, col) ==
    IF col >= Len(row) THEN <<>>
    ELSE <<insertText(startIndexOrZero(tableRows, rowIdx + 1, col) + 1, row[col + 1])>>
         \o rowFill(tableRows, row, rowIdx, col + 1)

\* rows.forEach((row, rowIdx) => ...), from row rowIdx on.
RECURSIVE rowsFill(_, _, _)
rowsFill(tableRows, rows, rowIdx) ==
    IF rowIdx >= Len(rows) THEN <<>>
    ELSE rowFill(tableRows, rows[rowIdx + 1], rowIdx, 0)
         \o rowsFill(tableRows, rows, rowIdx + 1)

\* The fill array insertAndFillTable builds from the fetched structure.
fillRequests(tableRows, headers, rows) ==
    headerFill(tableRows, headers, 0) \o rowsFill(tableRows, rows, 0)

\* The cells whose paragraph holds index: from the paragraph's first
\* index up to its newline.
cellsAt(doc, index) ==
    {rc \in {<<r, c>> : r \in DOMAIN doc.cells, c \in 1..Len(doc.cells[1])} :
        /\ cellStartIndex(doc, rc[1], rc[2]) + 1 <= index
        /\ index <= cellStartIndex(doc, rc[1], rc[2]) + 1 + Len(doc.cells[rc[1]][rc[2]])}

\* text put into a string at position at (counted from 1).
spliced(string, at, text) ==
    SubSeq(string, 1, at - 1) \o text \o SubSeq(string, at, Len(string))

\* A fill batch while the store applies it: the document, whether a
\* request was refused, and for each insertion where it landed (the cell,
\* <<0, 0>> for the text in front of the table, <<>> when refused).
Filling(doc) == [refused |-> FALSE, doc |-> doc, landed |-> <<>>]

\* One request of the fill batch applied.  An insertion goes into the
\* paragraph that holds its index and is refused when no paragraph does (the
\* index is that of a table, row or cell boundary, or past the end); a text
\* style request leaves the text as it is.
applyFillRequest(st, request) ==
    IF st.refused \/ request.kind # "insertText" THEN st
    ELSE IF request.startIndex <= Len(st.doc.body)
    THEN [st EXCEPT !.doc.body = spliced(@, request.startIndex, request.text),
                    !.doc.tableStart = @ + Len(request.text),
                    !.landed = Append(@, <<0, 0>>)]
    ELSE IF cellsAt(st.doc, request.startIndex) = {}
    THEN [st EXCEPT !.refused = TRUE, !.landed = Append(@, <<>>)]
    ELSE LET rc == CHOOSE x \in cellsAt(st.doc, request.startIndex) : TRUE IN
         [st EXCEPT !.doc.cells[rc[1]][rc[2]] =
                        spliced(@, request.startIndex
                                      - cellStartIndex(st.doc, rc[1], rc[2]),
                                request.text),
                    !.landed = Append(@, rc)]

\* The requests of the fill batch applied in order, up to the first refused.
RECURSIVE applyFill(_, _)
applyFill(st, requests) ==
    IF requests = <<>> THEN st
    ELSE applyFill(applyFillRequest(st, Head(requests)), Tail(requests))

\* One insertAndFillTable invocation.  pc names the remote call its
\* withRetry frame f is on ("shape" for "Insert table", "get", "fill"), or
\* is "idle", "returned" or "failed"; start, tableRows and fill are the
\* locals of those names (tableRows is <<>> when no table was found);
\* doc is the remote document.  History: log lists the remote calls
\* answered so far, landed where the insertions of the fill batch went.
IdleTable ==
    [pc |-> "idle", f |-> IdleRetry, headers |-> <<>>, rows |-> <<>>, start |-> 0,
     tableRows |-> <<>>, fill |-> <<>>, doc |-> NoTableDoc, log |-> <<>>,
     landed |-> <<>>, error |-> NoRemoteError]

\* insertAndFillTable up to its first await: the insertTable request is
\* pushed onto the builder's requests and the cursor moved on by 2.
pushTable(builder, headers, rows) ==
    [index |-> builder.index + 2,
     requests |-> Append(builder.requests,
                         insertTable(builder.index, Len(rows) + 1, Len(headers)))]

\* The invocation moves on to the remote call named op.
nextTableCall(t, op) ==
    [t EXCEPT !.pc = op, !.f = withRetryStart(maxRetriesDefault, baseDelayDefault),
              !.log = Append(@, t.pc)]

\* Mutant of afterGet: the fill batch is built and sent whether or not the
\* response holds a table.
afterGet_NoEarlyReturn(t, tableRows) ==
    nextTableCall([t EXCEPT !.tableRows = tableRows,
                            !.fill = fillRequests(tableRows, t.headers, t.rows)],
                  "fill")

\* After the response of documents.get: return when it holds no table,
\* else build the fill array and send it.
afterGet(t, tableRows) ==
    IF tableRows = <<>>
    THEN [t EXCEPT !.pc = "returned", !.f = withRetryOnOk(@), !.log = Append(@, "get")]
    ELSE nextTableCall([t EXCEPT !.tableRows = tableRows,
                                 !.fill = fillRequests(tableRows, t.headers, t.rows)],
                       "fill")

\* drive.files.list({ pageSize: 100 }) answers with one page, the first
\* pageSize documents of the scope in the order the store lists them; the
\* page token for the rest is not asked for.
pageSize == 100
listed(docs) == {id \in DOMAIN docs : id <= pageSize}

\* The ids, in the response of files.list, of the documents whose
\* fingerprint property equals the one searched for.
matchingIds(docs, fingerprint) ==
    {id \in listed(docs) : docs[id].appProperties = fingerprint}

\* fileMetadata.data.webViewLink ?? `https://docs.google.com/document/d/${docId}/edit`
docUrlOf(docId, linkReturned) ==
    IF linkReturned THEN <<"webViewLink", docId>> ELSE <<"synthesized", docId>>

\* Mutant of startCall: one attempt counter for the whole publish.
startCall_SharedCounter(prev) ==
    IF prev.st = "idle" THEN withRetryStart(maxRetriesDefault, baseDelayDefault)
    ELSE retryAttempt([prev EXCEPT !.invocations = 0, !.delays = <<>>])

\* Each remote call is handed to its own withRetry, with the default options.
startCall(prev) == withRetryStart(maxRetriesDefault, baseDelayDefault)

\* One publishLessonPack invocation.  pc names the remote call its withRetry
\* frame f is on ("search", "get", "clear", "create", "apply", "meta"), or
\* is "idle", "returned" or "failed".  History: log lists the remote calls
\* answered so far, created the ids of the documents it created,
\* searchFailed whether the search threw, foundAtSearch the matching ids the
\* search response held, priorExhausted whether an earlier call of this
\* invocation used up all its attempts, leftBody the text of its document
\* when its batch had been applied, deletes the ranges of the
\* deleteContentRange requests it sent.  endIndex is the local of that name.
IdlePublish ==
    [pc |-> "idle", pack |-> NoPack, fingerprint |-> <<>>, docId |-> 0,
     isUpdate |-> FALSE, f |-> IdleRetry, docUrl |-> <<>>, error |-> NoRemoteError,
     log |-> <<>>, created |-> {}, searchFailed |-> FALSE, foundAtSearch |-> {},
     priorExhausted |-> FALSE, leftBody |-> "", endIndex |-> 0, deletes |-> <<>>]

\* The errors the store answers with in the publisher's runs: one transient,
\* one not.
PubErrors == {RemoteError(503, "http"), RemoteError(403, "http")}

\* The invocation moves on to the remote call named op.
nextCall(r, op) ==
    [r EXCEPT !.pc = op, !.f = startCall(r.f),
              !.log = Append(@, r.pc),
              !.priorExhausted = @ \/ r.f.attempt = r.f.maxRetries + 1]

\* "Build and apply content": the batch update when there are requests,
\* else straight to the final metadata fetch.
toApply(r, requests) ==
    IF Len(requests) > 0 THEN nextCall(r, "apply") ELSE nextCall(r, "meta")

\* if (endIndex && endIndex > 1): send the clearing delete over
\* [1, endIndex - 1), else go straight to the batch.
clearOrApply(r, requests) ==
    IF r.endIndex > 1
    THEN nextCall([r EXCEPT !.deletes = Append(@, <<1, r.endIndex - 1>>)], "clear")
    ELSE toApply(r, requests)

\* Mutant of afterSearch: the search result is ignored.
afterSearch_AlwaysCreate(r, existingDocId) == nextCall(r, "create")

\* The continuation of publishLessonPack after findExistingDocByFingerprint:
\* update the document found, or create one.
afterSearch(r, existingDocId) ==
    IF existingDocId # 0
    THEN nextCall([r EXCEPT !.docId = existingDocId, !.isUpdate = TRUE], "get")
    ELSE nextCall(r, "create")

\* Mutant of onSearchThrew: the search error leaves publishLessonPack.
onSearchThrew_Propagates(r, f2, e) ==
    [r EXCEPT !.pc = "failed", !.f = f2, !.error = e, !.searchFailed = TRUE]

\* findExistingDocByFingerprint's catch block: warn and return null.
onSearchThrew(r, f2, e) == afterSearch([r EXCEPT !.searchFailed = TRUE], 0)


VARIABLES
    maxAttempts,     \* MAX_ATTEMPTS_DEFAULT
    googleMode,      \* appConfig.google.mode
    runPipelineRev,  \* which revision of runPipeline in pipeline.ts runs
    pc,              \* main/runPipeline: "start", "discover", "preprocess", "file", "exited"
    mainEnd,         \* how main ended: "", "no-input-dir", "no-files", "summary", "fatal"
    exitCode,        \* process.exitCode (0 while unset)
    files,           \* runPipeline's sorted file list
    idx,             \* position of the file the for-loop is at
    results,         \* runPipeline's results array
    gen,             \* gen[i][a]: the callJsonModel invocation of agent a for file i
    stage,           \* stage[i]: where processSingleFile of file i is
    stageLog,        \* stageLog[i]: the stages file i has entered, in order
    pub,             \* pub[i]: the publishLessonPack invocation of file i
    store,           \* the remote store: store[id] is the document with that id
    publ,            \* publ[p]: one publishLessonPack invocation against the store
    overlap,         \* history: some publishLessonPack began while another ran
    call,            \* one withRetry invocation with explicit options
    format,          \* appConfig.format
    record,          \* the LessonPack handed to the renderer
    builder,         \* the DocsBuilder of the render pass
    rendered,        \* the render call made: its function and the builder it began from
    applying,        \* a batch the store is applying, request by request
    table            \* one insertAndFillTable invocation and its document

cfg == <<maxAttempts, googleMode, runPipelineRev>>
loop == <<pc, mainEnd, exitCode, files, idx, results>>
perFile == <<gen, stage, stageLog, pub>>
remote == <<store, publ, overlap, call>>
rendering == <<format, record, builder, rendered, applying, table>>
vars == <<maxAttempts, googleMode, runPipelineRev, pc, mainEnd, exitCode, files,
          idx, results, gen, stage, stageLog, pub, store, publ, overlap, call,
          format, record, builder, rendered, applying, table>>

\* No render function has been called.
NotRendered == [fn |-> "", from |-> DocsBuilder]

\* No render pass has begun; config.ts defines no format, so appConfig.format
\* is undefined.
RenderIdle ==
    /\ format = "undefined"
    /\ record = NoPack
    /\ builder = DocsBuilder
    /\ rendered = NotRendered
    /\ applying = NotApplying
    /\ table = IdleTable

\* No publishLessonPack invocation against the store and no withRetry
\* invocation has begun; the store is empty.
RemoteIdle ==
    /\ store = <<>>
    /\ publ = [p \in Publishers |-> IdlePublish]
    /\ overlap = FALSE
    /\ call = IdleCall

\* main has not begun.
PipelineIdle ==
    /\ pc = "start"
    /\ mainEnd = ""
    /\ exitCode = 0
    /\ files = <<>>
    /\ idx = 0
    /\ results = <<>>
    /\ gen = [i \in Positions |-> [a \in Agents |-> IdleGen]]
    /\ stage = [i \in Positions |-> "idle"]
    /\ stageLog = [i \in Positions |-> <<>>]
    /\ pub = [i \in Positions |-> IdlePub]

Init ==
    /\ maxAttempts \in 1..MaxAttemptsCap
    /\ googleMode \in {"none", "service-account", "oauth"}
    /\ runPipelineRev \in {1, 2}
    /\ PipelineIdle
    /\ RemoteIdle
    /\ RenderIdle

\* main ends: runPipeline's promise has settled, or it was never called.
Exit(how, code) ==
    /\ pc' = "exited"
    /\ mainEnd' = how
    /\ exitCode' = code

\* main up to its first await: createOpenAIClient (a throw reaches
\* main().catch), the input directory check, then runPipeline up to the
\* globby call.
Main ==
    /\ pc = "start"
    /\ \E clientOk \in BOOLEAN, dirExists \in BOOLEAN :
         IF ~clientOk
         THEN Exit("fatal", 1)
         ELSE IF dirExists
         THEN pc' = "discover" /\ UNCHANGED <<mainEnd, exitCode>>
         ELSE Exit("no-input-dir", 1)
    /\ UNCHANGED <<files, idx, results>>
    /\ UNCHANGED cfg
    /\ UNCHANGED remote
    /\ UNCHANGED rendering
    /\ UNCHANGED perFile

\* globby settles: a rejection reaches main().catch; an empty list ends the
\* run; otherwise the for-loop starts on the first sorted file.
Discovered ==
    /\ pc = "discover"
    /\ \E ok \in BOOLEAN, glob \in GlobResults :
         IF ~ok
         THEN Exit("fatal", 1) /\ UNCHANGED <<files, idx>>
         ELSE IF glob = <<>>
         THEN Exit("no-files", exitCode) /\ UNCHANGED <<files, idx>>
         ELSE /\ files' = discoverInputFiles(glob)
              /\ idx' = 1
              /\ pc' = "preprocess"
              /\ UNCHANGED <<mainEnd, exitCode>>
    /\ UNCHANGED results
    /\ UNCHANGED cfg
    /\ UNCHANGED remote
    /\ UNCHANGED rendering
    /\ UNCHANGED perFile

\* results.push(result) and the next loop iteration; after the last file
\* runPipeline returns and main prints the summary and sets the exit code.
FinishFile(res) ==
    LET rs == Append(results, res) IN
    /\ results' = rs
    /\ files' = files
    /\ IF idx < Len(files)
       THEN idx' = idx + 1 /\ pc' = "preprocess" /\ UNCHANGED <<mainEnd, exitCode>>
       ELSE idx' = idx /\ Exit("summary", mainExitCode(rs))

\* processSingleFile's catch block.
FailFile(i, err) ==
    /\ stage' = [stage EXCEPT ![i] = "done"]
    /\ FinishFile(FileProcessingResult(files[i], FALSE, err, ""))


\* Mutant of publishLessonPackStart: the mode is not looked at.
publishLessonPackStart_IgnoresMode(mode, tokenExists) ==
    IF mode = "oauth" /\ ~tokenExists THEN "throws" ELSE "remote"

\* publishLessonPack up to its first remote call: null when publishing is
\* not configured, a throw from getAuthClient when the OAuth token file is
\* missing, otherwise the remote calls begin.
publishLessonPackStart(mode, tokenExists) ==
    IF mode = "none" THEN "null"
    ELSE IF mode = "oauth" /\ ~tokenExists THEN "throws"
    ELSE "remote"

\* The locals of a settled invocation are garbage: what outlives it is its
\* result (value or error) and, as history, its call count.
dropFrame(g) ==
    IF g.st \in {"returned", "failed"}
    THEN [g EXCEPT !.frame = FALSE, !.attempt = 0, !.messages = <<>>,
                   !.replies = <<>>, !.input = NoInput]
    ELSE g

collect(gs) == [i \in Positions |-> [a \in Agents |-> dropFrame(gs[i][a])]]

\* Mutant of releaseSettled: taking the next file also abandons the earlier
\* files' invocations that still await a model call.
releaseSettled_AbandonsInflight(gs, at) ==
    [i \in Positions |->
        [a \in Agents |->
            IF i < at /\ gs[i][a].st \in {"inflight", "returned", "failed"}
            THEN ReleasedGen ELSE dropFrame(gs[i][a])]]

\* By the time the for-loop takes the file at position at, the settled
\* callJsonModel invocations of the earlier files are garbage altogether.
\* One still awaiting a model call lives on.
releaseSettled(gs, at) ==
    [i \in Positions |->
        [a \in Agents |->
            IF i < at /\ gs[i][a].st \in {"returned", "failed"}
            THEN ReleasedGen ELSE dropFrame(gs[i][a])]]

\* await preprocessDocument(file) settles.  Read: processSingleFile starts
\* and runs to the preprocessor agent's first model call.  Failure: the
\* revision at pipeline.ts 463-505 records a failure outcome and goes on;
\* the revision at 169-197 has no try around it, so runPipeline rejects and
\* main().catch sets the exit code.
Preprocessed ==
    /\ pc = "preprocess"
    /\ \E readable \in BOOLEAN :
         IF readable
         THEN /\ gen' = [releaseSettled(gen, idx) EXCEPT ![idx]["preprocessor"] =
                    callJsonModelStart(SchemaOf("preprocessor"),
                                       buildAgentInput(files[idx]), maxAttempts)]
              /\ stage' = [stage EXCEPT ![idx] = "normalize"]
              /\ stageLog' = [stageLog EXCEPT ![idx] = Append(@, "normalize")]
              /\ pc' = "file"
              /\ UNCHANGED <<mainEnd, exitCode, files, idx, results>>
         ELSE /\ IF runPipelineRev = 2
                 THEN FinishFile(FileProcessingResult(files[idx], FALSE,
                          [reason |-> "preprocess", detail |-> "", rawContent |-> ""], ""))
                 ELSE Exit("fatal", 1) /\ UNCHANGED <<files, idx, results>>
              /\ gen' = releaseSettled(gen, idx)
              /\ UNCHANGED <<stage, stageLog>>
    /\ UNCHANGED pub
    /\ UNCHANGED cfg
    /\ UNCHANGED remote
    /\ UNCHANGED rendering

\* A completion arrives for the preprocessor agent of file i.
Normalized(i) ==
    /\ gen[i]["preprocessor"].st = "inflight"
    /\ \E reply \in Replies("preprocessor") :
         LET g == callJsonModelOnReply(gen[i]["preprocessor"], reply, maxAttempts)
             input == normalizedInput(files[i], g.value)
         IN
         CASE g.st = "returned" ->
                /\ gen' = [collect(gen) EXCEPT
                      ![i]["preprocessor"] = g,
                      ![i]["strategist"] =
                          callJsonModelStart(SchemaOf("strategist"), input, maxAttempts),
                      ![i]["research"] =
                          callJsonModelStart(SchemaOf("research"), input, maxAttempts)]
                /\ stage' = [stage EXCEPT ![i] = "analyze"]
                /\ stageLog' = [stageLog EXCEPT ![i] = Append(@, "analyze")]
                /\ UNCHANGED loop
           [] g.st = "failed" ->
                /\ gen' = [collect(gen) EXCEPT ![i]["preprocessor"] = g]
                /\ FailFile(i, g.error)
                /\ UNCHANGED stageLog
           [] OTHER ->
                /\ gen' = [collect(gen) EXCEPT ![i]["preprocessor"] = g]
                /\ UNCHANGED <<stage, stageLog>>
                /\ UNCHANGED loop
    /\ UNCHANGED pub
    /\ UNCHANGED cfg
    /\ UNCHANGED remote
    /\ UNCHANGED rendering

OtherAnalyst(a) == IF a = "strategist" THEN "research" ELSE "strategist"

\* A completion arrives for analyst a of file i.  While processSingleFile
\* still awaits Promise.all, a rejection goes to its catch block and the
\* second fulfilment starts the synthesis agent; once the file has failed
\* the sibling's completions change nothing but the sibling itself, whose
\* frame is dropped when it settles.
Analysed(i, a) ==
    /\ gen[i][a].st = "inflight"
    /\ \E reply \in Replies(a) :
         LET g == callJsonModelOnReply(gen[i][a], reply, maxAttempts)
             other == gen[i][OtherAnalyst(a)]
             all == IF stage[i] = "analyze" THEN promiseAll(g, other) ELSE "pending"
             gen1 == [collect(gen) EXCEPT ![i][a] = g]
         IN
         CASE all = "fulfilled" ->
                /\ gen' = [gen1 EXCEPT ![i]["synthesizer"] =
                      callJsonModelStart(SchemaOf("synthesizer"),
                          synthesisInput(files[i], gen[i]["preprocessor"].value,
                                         gen1[i]["strategist"].value,
                                         gen1[i]["research"].value),
                          maxAttempts)]
                /\ stage' = [stage EXCEPT ![i] = "synthesize"]
                /\ stageLog' = [stageLog EXCEPT ![i] = Append(@, "synthesize")]
                /\ UNCHANGED loop
           [] all = "rejected" ->
                /\ gen' = gen1
                /\ FailFile(i, g.error)
                /\ UNCHANGED stageLog
           [] OTHER ->
                /\ gen' = IF stage[i] = "done" /\ g.st \in {"returned", "failed"}
                          THEN [collect(gen) EXCEPT ![i][a] = ReleasedGen]
                          ELSE gen1
                /\ UNCHANGED <<stage, stageLog>>
                /\ UNCHANGED loop
    /\ UNCHANGED pub
    /\ UNCHANGED cfg
    /\ UNCHANGED remote
    /\ UNCHANGED rendering

\* A completion arrives for the synthesis agent of file i.  On a validated
\* pack: stamp the input metadata, LessonPack.parse, publishLessonPack up to
\* its first remote call.
Synthesised(i) ==
    /\ gen[i]["synthesizer"].st = "inflight"
    /\ \E reply \in Replies("synthesizer"), tokenExists \in BOOLEAN :
         LET g == callJsonModelOnReply(gen[i]["synthesizer"], reply, maxAttempts)
             finalPack == stampMetadata(g.value, files[i])
             start == publishLessonPackStart(googleMode, tokenExists)
         IN
         /\ gen' = [collect(gen) EXCEPT ![i]["synthesizer"] = g]
         /\ CASE g.st = "returned" /\ finalizeAccepts(finalPack) ->
                   /\ stageLog' = [stageLog EXCEPT ![i] = @ \o <<"finalize", "publish">>]
                   /\ pub' = [pub EXCEPT ![i] =
                         [st |-> IF start = "remote" THEN "inflight" ELSE start,
                          calls |-> @.calls + 1, pack |-> finalPack]]
                   /\ CASE start = "null" ->
                             /\ stage' = [stage EXCEPT ![i] = "done"]
                             /\ FinishFile(FileProcessingResult(files[i], TRUE, NoError, ""))
                        [] start = "throws" ->
                             FailFile(i, [reason |-> "oauth-token-missing",
                                          detail |-> "", rawContent |-> ""])
                        [] OTHER ->
                             /\ stage' = [stage EXCEPT ![i] = "publish"]
                             /\ UNCHANGED loop
              [] g.st = "returned" /\ ~finalizeAccepts(finalPack) ->
                   /\ stageLog' = [stageLog EXCEPT ![i] = Append(@, "finalize")]
                   /\ FailFile(i, [reason |-> "schema", detail |-> "issues",
                                   rawContent |-> ""])
                   /\ UNCHANGED pub
              [] g.st = "failed" ->
                   /\ FailFile(i, g.error)
                   /\ UNCHANGED <<stageLog, pub>>
              [] OTHER ->
                   /\ UNCHANGED <<stage, stageLog, pub>>
                   /\ UNCHANGED loop
    /\ UNCHANGED cfg
    /\ UNCHANGED remote
    /\ UNCHANGED rendering

\* The remote calls of publishLessonPack for file i end: with a document
\* URL, or with an error that withRetry let through.
Published(i) ==
    /\ pub[i].st = "inflight"
    /\ \E ok \in BOOLEAN :
         IF ok
         THEN /\ pub' = [pub EXCEPT ![i].st = "returned"]
              /\ stage' = [stage EXCEPT ![i] = "done"]
              /\ FinishFile(FileProcessingResult(files[i], TRUE, NoError, "docUrl"))
         ELSE /\ pub' = [pub EXCEPT ![i].st = "failed"]
              /\ FailFile(i, [reason |-> "remote", detail |-> "", rawContent |-> ""])
    /\ gen' = collect(gen)
    /\ UNCHANGED stageLog
    /\ UNCHANGED cfg
    /\ UNCHANGED remote
    /\ UNCHANGED rendering

Next ==
    \/ Main
    \/ Discovered
    \/ Preprocessed
    \/ \E i \in Positions : Normalized(i)
    \/ \E i \in Positions, a \in Analysts : Analysed(i, a)
    \/ \E i \in Positions : Synthesised(i)
    \/ \E i \in Positions : Published(i)

Spec == Init /\ [][Next]_vars


\* ------------------------------------------------- withRetry on its own
\* The transient conditions: rate limit, server-error range, connection
\* reset, timeout.
TransientError(error) ==
    \/ error.code = 429
    \/ error.code \in 500..599
    \/ error.message \in {"ECONNRESET", "ETIMEDOUT"}

\* A caller is about to invoke withRetry(fn, {maxRetries, baseDelay}).
RetryInit ==
    /\ maxAttempts = 1
    /\ googleMode = "none"
    /\ runPipelineRev = 1
    /\ PipelineIdle
    /\ store = <<>>
    /\ publ = [p \in Publishers |-> IdlePublish]
    /\ overlap = FALSE
    /\ \E m \in 0..MaxRetriesCap, b \in BaseDelays :
         call = [IdleCall EXCEPT !.f.maxRetries = m, !.f.baseDelay = b]
    /\ RenderIdle

pipeline == <<maxAttempts, googleMode, runPipelineRev, pc, mainEnd, exitCode, files,
              idx, results, gen, stage, stageLog, pub>>

\* withRetry is invoked and runs to its first await.
WithRetry ==
    /\ call.f.st = "idle"
    /\ call' = [call EXCEPT !.f = withRetryStart(call.f.maxRetries, call.f.baseDelay)]
    /\ UNCHANGED <<store, publ, overlap>>
    /\ UNCHANGED pipeline
    /\ UNCHANGED rendering

\* The awaited fn() settles.
FnSettled ==
    /\ call.f.st = "calling"
    /\ \/ call' = [call EXCEPT !.f = withRetryOnOk(@)]
       \/ \E e \in RemoteErrors :
            call' = [call EXCEPT !.f = withRetryOnError(@, e),
                                 !.lastError = e,
                                 !.failures = @ + 1,
                                 !.allTransient = @ /\ TransientError(e)]
    /\ UNCHANGED <<store, publ, overlap>>
    /\ UNCHANGED pipeline
    /\ UNCHANGED rendering

\* The awaited setTimeout promise resolves.
TimerFired ==
    /\ call.f.st = "waiting"
    /\ call' = [call EXCEPT !.f = withRetryOnTimer(@)]
    /\ UNCHANGED <<store, publ, overlap>>
    /\ UNCHANGED pipeline
    /\ UNCHANGED rendering

RetryNext == WithRetry \/ FnSettled \/ TimerFired

RetrySpec == RetryInit /\ [][RetryNext]_vars



\* ------------------------------------- publishLessonPack against a store
\* Publishing is configured and nothing has been published yet.
PubInit ==
    /\ maxAttempts = 1
    /\ googleMode = "service-account"
    /\ runPipelineRev = 1
    /\ PipelineIdle
    /\ store = <<>>
    /\ publ = [p \in Publishers |-> IdlePublish]
    /\ overlap = FALSE
    /\ call = IdleCall
    /\ RenderIdle

Running(r) == r.pc \notin {"idle", "returned", "failed"}

\* publishLessonPack(config, pack) is invoked and runs to its first remote
\* call, the search of findExistingDocByFingerprint.
Publish(p) ==
    /\ publ[p].pc = "idle"
    /\ \E pack \in PubPacks(p) :
         publ' = [publ EXCEPT ![p] =
                    [IdlePublish EXCEPT !.pack = pack,
                                        !.fingerprint = generateContentFingerprint(pack),
                                        !.pc = "search",
                                        !.f = startCall(IdleRetry)]]
    /\ overlap' = (overlap \/ \E q \in Publishers \ {p} : Running(publ[q]))
    /\ UNCHANGED <<store, call>>
    /\ UNCHANGED pipeline
    /\ UNCHANGED rendering

\* The store answers the remote call publisher p awaits: the call takes
\* effect and publishLessonPack runs on to its next remote call or returns.
Answered(p) ==
    LET r == publ[p]
        newId == Len(store) + 1
        matching == matchingIds(store, r.fingerprint)
        requests == buildRequests(r.pack, format)
    IN
    /\ r.f.st = "calling"
    /\ CASE r.pc = "search" ->
              /\ \E id \in (IF matching = {} THEN {0} ELSE matching) :
                   publ' = [publ EXCEPT ![p] =
                              afterSearch([r EXCEPT !.foundAtSearch = matching], id)]
              /\ UNCHANGED store
         [] r.pc = "get" ->
              /\ publ' = [publ EXCEPT ![p] =
                            clearOrApply([r EXCEPT !.endIndex = endIndexOf(store[r.docId])],
                                         requests)]
              /\ UNCHANGED store
         [] r.pc = "clear" ->
              /\ store' = [store EXCEPT ![r.docId].body =
                              deleteContentRange(@, 1, r.endIndex - 1)]
              /\ publ' = [publ EXCEPT ![p] = toApply(r, requests)]
         [] r.pc = "create" ->
              /\ store' = Append(store, NewDoc(r.fingerprint))
              /\ \E idReturned \in BOOLEAN :
                   publ' = [publ EXCEPT ![p] =
                              IF idReturned
                              THEN toApply([r EXCEPT !.docId = newId,
                                                     !.created = @ \cup {newId}],
                                           requests)
                              ELSE [r EXCEPT !.pc = "failed",
                                             !.f = withRetryOnOk(@),
                                             !.created = @ \cup {newId},
                                             !.log = Append(@, "create"),
                                             !.error = RemoteError(0, "no file ID returned")]]
         [] r.pc = "apply" ->
              /\ store' = [store EXCEPT ![r.docId].body = batchUpdate(@, requests)]
              /\ publ' = [publ EXCEPT ![p] =
                            nextCall([r EXCEPT !.leftBody = store'[r.docId].body], "meta")]
         [] r.pc = "meta" ->
              /\ \E linkReturned \in BOOLEAN :
                   publ' = [publ EXCEPT ![p] =
                              [r EXCEPT !.pc = "returned",
                                        !.f = withRetryOnOk(@),
                                        !.log = Append(@, "meta"),
                                        !.docUrl = docUrlOf(r.docId, linkReturned)]]
              /\ UNCHANGED store
    /\ UNCHANGED <<overlap, call>>
    /\ UNCHANGED pipeline
    /\ UNCHANGED rendering

\* The remote call publisher p awaits rejects.  withRetry waits or throws;
\* a throw out of the search is caught by findExistingDocByFingerprint,
\* which returns null, any other throw leaves publishLessonPack.
Rejected(p) ==
    LET r == publ[p] IN
    /\ r.f.st = "calling"
    /\ \E e \in PubErrors :
         LET f2 == withRetryOnError(r.f, e) IN
         publ' = [publ EXCEPT ![p] =
                    IF f2.st # "threw" THEN [r EXCEPT !.f = f2]
                    ELSE IF r.pc = "search" THEN onSearchThrew(r, f2, e)
                    ELSE [r EXCEPT !.pc = "failed", !.f = f2, !.error = e]]
    /\ UNCHANGED <<store, overlap, call>>
    /\ UNCHANGED pipeline
    /\ UNCHANGED rendering

\* The backoff timer of publisher p's withRetry fires.
BackedOff(p) ==
    /\ publ[p].f.st = "waiting"
    /\ publ' = [publ EXCEPT ![p].f = withRetryOnTimer(@)]
    /\ UNCHANGED <<store, overlap, call>>
    /\ UNCHANGED pipeline
    /\ UNCHANGED rendering

PubNext ==
    \/ \E p \in Publishers : Publish(p)
    \/ \E p \in Publishers : Answered(p)
    \/ \E p \in Publishers : Rejected(p)
    \/ \E p \in Publishers : BackedOff(p)

PubSpec == PubInit /\ [][PubNext]_vars


\* ------------------------------------------ the search over a large scope
MaxDocs == 102          \* most documents the scope holds before a publish
ScopeSizes == {0, 1, 2, pageSize - 1, pageSize, pageSize + 1, MaxDocs}

\* A scope of n documents, the one at position at (none for 0) carrying the
\* fingerprint, the others that of another record.
Scope(n, at, fingerprint) ==
    [id \in 1..n |->
        IF id = at THEN NewDoc(fingerprint)
        ELSE NewDoc(generateContentFingerprint(PubPack("Trade", 1)))]

\* Publishing is configured and the scope already holds documents.
SearchInit ==
    /\ maxAttempts = 1
    /\ googleMode = "service-account"
    /\ runPipelineRev = 1
    /\ PipelineIdle
    /\ \E n \in ScopeSizes, at \in 0..MaxDocs :
         /\ at <= n
         /\ store = Scope(n, at, generateContentFingerprint(PubPack("Environment", 1)))
    /\ publ = [p \in Publishers |-> IdlePublish]
    /\ overlap = FALSE
    /\ call = IdleCall
    /\ RenderIdle

\* One publishLessonPack invocation up to the return of
\* findExistingDocByFingerprint.
SearchNext ==
    \/ Publish(1)
    \/ publ[1].pc = "search" /\ Answered(1)

SearchSpec == SearchInit /\ [][SearchNext]_vars


\* ------------------------------------------------- rendering a LessonPack
\* The builders formatArgumentSection is handed: a new one, and one that
\* already holds a title and a paragraph.
StartBuilders ==
    {DocsBuilder, addParagraph(addHeading(DocsBuilder, 1, "Environment"), "Motion: M")}

\* A record is about to be rendered; nothing else of the program runs.
RenderInit ==
    /\ maxAttempts = 1
    /\ googleMode = "none"
    /\ runPipelineRev = 1
    /\ PipelineIdle
    /\ RemoteIdle
    /\ format \in {"AUS", "undefined"}
    /\ record \in RenderPacks
    /\ builder = DocsBuilder
    /\ rendered = NotRendered
    /\ applying = NotApplying
    /\ table = IdleTable

\* buildRequests(pack): the whole document, on a new builder.
BuildRequests ==
    /\ rendered.fn = ""
    /\ builder' = builtFrom(record, format)
    /\ rendered' = [fn |-> "buildRequests", from |-> DocsBuilder]
    /\ UNCHANGED <<format, record, applying, table>>
    /\ UNCHANGED pipeline
    /\ UNCHANGED remote

\* formatArgumentSection(builder, heading, items) for the first case of the
\* record, on a builder in any state.
FormatArgumentSection ==
    /\ rendered.fn = ""
    /\ \E from \in StartBuilders :
         /\ builder' = formatArgumentSection(from, caseHeadingLabels(format).gov,
                                              record.govCase)
         /\ rendered' = [fn |-> "formatArgumentSection", from |-> from]
    /\ UNCHANGED <<format, record, applying, table>>
    /\ UNCHANGED pipeline
    /\ UNCHANGED remote

RenderNext ==
    \/ BuildRequests
    \/ FormatArgumentSection

RenderSpec == RenderInit /\ [][RenderNext]_vars




\* ------------------------------------------------ one callJsonModel call
MaxConversation == 4    \* largest maxAttempts of a lone callJsonModel explored

\* callJsonModel has been invoked once, for any agent's schema, and awaits
\* its first completion; nothing else of the program runs.
ConvInit ==
    /\ maxAttempts \in 1..MaxConversation
    /\ googleMode = "none"
    /\ runPipelineRev = 1
    /\ pc = "start"
    /\ mainEnd = ""
    /\ exitCode = 0
    /\ files = <<>>
    /\ idx = 0
    /\ results = <<>>
    /\ \E a \in Agents :
         gen = [i \in Positions |-> [b \in Agents |->
                  IF i = 1 /\ b = a
                  THEN callJsonModelStart(SchemaOf(a), buildAgentInput(1), maxAttempts)
                  ELSE IdleGen]]
    /\ stage = [i \in Positions |-> "idle"]
    /\ stageLog = [i \in Positions |-> <<>>]
    /\ pub = [i \in Positions |-> IdlePub]
    /\ RemoteIdle
    /\ RenderIdle

\* The awaited completion arrives.
Completed(a) ==
    /\ gen[1][a].st = "inflight"
    /\ \E reply \in Replies(a) :
         gen' = [gen EXCEPT ![1][a] = callJsonModelOnReply(@, reply, maxAttempts)]
    /\ UNCHANGED <<stage, stageLog, pub>>
    /\ UNCHANGED loop
    /\ UNCHANGED cfg
    /\ UNCHANGED remote
    /\ UNCHANGED rendering

ConvNext == \E a \in Agents : Completed(a)

ConvSpec == ConvInit /\ [][ConvNext]_vars

\* ------------------------------------------------ the builder, call by call
MaxBuilderRequests == 5 \* requests the builder holds before its last call

\* The arguments the builder's methods are called with.
BuilderTexts == {"", "a", "bc"}
BuilderItems == {<<>>, <<"x">>, <<"x", "yz">>, <<"">>}

\* new DocsBuilder(); nothing else of the program runs.
BuilderInit ==
    /\ maxAttempts = 1
    /\ googleMode = "none"
    /\ runPipelineRev = 1
    /\ PipelineIdle
    /\ RemoteIdle
    /\ RenderIdle

\* builder.addHeading(level, text)
AddHeading ==
    /\ Len(builder.requests) < MaxBuilderRequests
    /\ \E level \in 1..4, text \in BuilderTexts :
         builder' = addHeading(builder, level, text)
    /\ rendered' = [fn |-> "addHeading", from |-> builder]
    /\ UNCHANGED <<format, record, applying, table>>
    /\ UNCHANGED pipeline
    /\ UNCHANGED remote

\* builder.addParagraph(text)
AddParagraph ==
    /\ Len(builder.requests) < MaxBuilderRequests
    /\ \E text \in BuilderTexts : builder' = addParagraph(builder, text)
    /\ rendered' = [fn |-> "addParagraph", from |-> builder]
    /\ UNCHANGED <<format, record, applying, table>>
    /\ UNCHANGED pipeline
    /\ UNCHANGED remote

\* builder.addBulletList(items)
AddBulletList ==
    /\ Len(builder.requests) < MaxBuilderRequests
    /\ \E items \in BuilderItems :
         /\ builder' = addBulletList(builder, items)
         /\ rendered' = [fn |-> "addBulletList", from |-> builder, items |-> items]
    /\ UNCHANGED <<format, record, applying, table>>
    /\ UNCHANGED pipeline
    /\ UNCHANGED remote

BuilderNext ==
    \/ AddHeading
    \/ AddParagraph
    \/ AddBulletList

BuilderSpec == BuilderInit /\ [][BuilderNext]_vars

\* ------------------------------------ the batch applied request by request
\* The records rendered for the batch: every optional part present or every
\* one absent, with each shape of tests and of the first case.
ApplyPacks ==
    {LessonPackOf(o) : o \in {x \in PackOptions :
        /\ x.motion = x.context /\ x.context = x.lists /\ x.lists = x.optionals
        /\ x.bank /\ x.filename = 1}}

\* What the documents the batch is sent to held before the clearing delete
\* (nothing for a document just created).
PriorBodies == {"", "old\ntext\n"}

\* The document after deleteContentRange over [1, endIndex - 1).
cleared(prior) ==
    deleteContentRange(prior, 1, endIndexOf([body |-> prior]) - 1)

\* publishLessonPack has a document that is new or just cleared and is
\* about to build its requests.
ApplyInit ==
    /\ maxAttempts = 1
    /\ googleMode = "service-account"
    /\ runPipelineRev = 1
    /\ PipelineIdle
    /\ RemoteIdle
    /\ format \in {"AUS", "undefined"}
    /\ record \in ApplyPacks
    /\ builder = DocsBuilder
    /\ rendered = NotRendered
    /\ \E prior \in PriorBodies : applying = [at |-> 0, doc |-> Applying(cleared(prior))]
    /\ table = IdleTable

\* documents.batchUpdate({ requests }): the store applies the next request
\* of the batch to the document.
ApplyRequest ==
    /\ rendered.fn = "buildRequests"
    /\ applying.at < Len(builder.requests)
    /\ applying' = [at |-> applying.at + 1,
                    doc |-> applyRequest(applying.doc, builder.requests[applying.at + 1])]
    /\ UNCHANGED <<format, record, builder, rendered, table>>
    /\ UNCHANGED pipeline
    /\ UNCHANGED remote

ApplyNext ==
    \/ BuildRequests
    \/ ApplyRequest

ApplySpec == ApplyInit /\ [][ApplyNext]_vars

\* ------------------------------------------- insertAndFillTable, call by call
MaxTableRows == 1 \* data rows of the table, besides the header row

\* The arguments insertAndFillTable is called with: one or two columns, and
\* rows as wide as the headers.
TableHeaders == {<<"N">>, <<"Na">>, <<"N", "R">>, <<"Na", "Ro">>}
TableTexts == {"x", "yz"}
TableRowsFor(headers) ==
    UNION {[1..n -> [1..Len(headers) -> TableTexts]] : n \in 0..MaxTableRows}

\* A builder is about to be handed to insertAndFillTable; nothing else of
\* the program runs and the document is empty.
TableInit ==
    /\ maxAttempts = 1
    /\ googleMode = "none"
    /\ runPipelineRev = 1
    /\ PipelineIdle
    /\ RemoteIdle
    /\ format = "undefined"
    /\ record = NoPack
    /\ builder \in StartBuilders
    /\ rendered = NotRendered
    /\ applying = NotApplying
    /\ table = IdleTable

\* insertAndFillTable(docs, documentId, builder, headers, rows) up to its
\* first await.
InsertAndFillTable ==
    /\ table.pc = "idle"
    /\ \E headers \in TableHeaders :
         \E rows \in TableRowsFor(headers) :
            /\ builder' = pushTable(builder, headers, rows)
            /\ table' = [IdleTable EXCEPT
                            !.pc = "shape",
                            !.f = withRetryStart(maxRetriesDefault, baseDelayDefault),
                            !.headers = headers, !.rows = rows,
                            !.start = builder.index]
    /\ UNCHANGED <<format, record, rendered, applying>>
    /\ UNCHANGED pipeline
    /\ UNCHANGED remote

\* The document after the "Insert table" batch: the builder's text, a
\* newline, and a table of empty cells.
shaped(t, requests) ==
    TableDoc(batchUpdate("", requests) \o "\n", t.start + 1,
             EmptyCells(Len(t.rows) + 1, Len(t.headers)))

\* The "Fill table" batch answered: applied as a whole, or refused as a
\* whole with the document left as it was.
afterFill(t, done) ==
    IF done.refused
    THEN [t EXCEPT !.pc = "failed",
                   !.f = withRetryOnError(@, RemoteError(400, "http")),
                   !.error = RemoteError(400, "http"), !.landed = done.landed]
    ELSE [t EXCEPT !.pc = "returned", !.f = withRetryOnOk(@), !.doc = done.doc,
                   !.log = Append(@, "fill"), !.landed = done.landed]

\* The awaited remote call is answered.  documents.get reports the table
\* that is there, or none (the document is not the invocation's alone).
TableAnswered ==
    /\ table.f.st = "calling"
    /\ \/ /\ table.pc = "shape"
          /\ table' = nextTableCall([table EXCEPT !.doc = shaped(table, builder.requests)],
                                    "get")
       \/ /\ table.pc = "get"
          /\ \E tableRows \in {tableRowsOf(table.doc), <<>>} :
               table' = afterGet(table, tableRows)
       \/ /\ table.pc = "fill"
          /\ table' = afterFill(table, applyFill(Filling(table.doc), table.fill))
    /\ UNCHANGED <<format, record, builder, rendered, applying>>
    /\ UNCHANGED pipeline
    /\ UNCHANGED remote

\* The awaited remote call rejects: withRetry's catch block, and out of
\* insertAndFillTable when it throws.
tableRejected(t, error) ==
    LET f == withRetryOnError(t.f, error) IN
    IF f.st = "threw" THEN [t EXCEPT !.f = f, !.pc = "failed", !.error = error]
    ELSE [t EXCEPT !.f = f]

TableRejected ==
    /\ table.f.st = "calling"
    /\ table.pc \in {"shape", "get", "fill"}
    /\ \E e \in PubErrors : table' = tableRejected(table, e)
    /\ UNCHANGED <<format, record, builder, rendered, applying>>
    /\ UNCHANGED pipeline
    /\ UNCHANGED remote

\* The awaited setTimeout promise of the call's withRetry resolves.
TableBackedOff ==
    /\ table.f.st = "waiting"
    /\ table' = [table EXCEPT !.f = withRetryOnTimer(@)]
    /\ UNCHANGED <<format, record, builder, rendered, applying>>
    /\ UNCHANGED pipeline
    /\ UNCHANGED remote

TableNext ==
    \/ InsertAndFillTable
    \/ TableAnswered
    \/ TableRejected
    \/ TableBackedOff

TableSpec == TableInit /\ [][TableNext]_vars

\* ------------------------------------------------ runs that are scheduled
\* A run of main, or a withRetry invocation on its own (its frame carries
\* the caller's baseDelay from the start), in which every handler that is
\* ready is run: Node's event loop runs a continuation once the promise it
\* awaits has settled, and every model call and remote call settles.
LiveInit == Init \/ RetryInit

LiveNext ==
    \/ call = IdleCall /\ Next
    \/ call # IdleCall /\ RetryNext

LiveSpec == LiveInit /\ [][LiveNext]_vars /\ WF_vars(LiveNext)

\* ================================================================ claims
Gens == {gen[i][a] : i \in Positions, a \in Agents}
Last(seq) == seq[Len(seq)]

\* The content a completion's message carries: the string, the texts of the
\* parts in order, or nothing.
RECURSIVE PartsText(_)
PartsText(parts) ==
    IF parts = <<>> THEN ""
    ELSE PartsText(SubSeq(parts, 1, Len(parts) - 1))
            \o (IF Last(parts).type = "image" THEN "" ELSE Last(parts).text)
ReplyContent(reply) ==
    CASE reply.msg = "string" -> reply.content
      [] reply.msg = "parts" -> PartsText(reply.parts)
      [] OTHER -> ""

\* A completion that carries a message whose content fails JSON.parse or
\* the invocation's schema.
InvalidReply(schema, reply) ==
    /\ reply.msg \in {"string", "parts", "other"}
    /\ \/ ReplyContent(reply) \in {"garbage", ""}
       \/ JsonParse(ReplyContent(reply)).keys # schema
       \/ ReplyContent(reply) = "thin-pack"
ValidReply(schema, reply) ==
    reply.msg \in {"string", "parts", "other"} /\ ~InvalidReply(schema, reply)
TransportReply(reply) == reply.msg \in {"throw", "none"}

\* C1: when every reply so far failed parsing or validation, callJsonModel
\* has issued one call per reply plus the next one while attempts remain,
\* and after maxAttempts such replies it has made exactly maxAttempts calls
\* and failed with invalid-output carrying the last reply's detail and raw
\* content; no invocation ever makes more than maxAttempts calls.
C1_RetryBound ==
    \A g \in Gens :
        /\ g.calls <= maxAttempts
        /\ (g.replies # <<>> /\ \A k \in DOMAIN g.replies : InvalidReply(g.schema, g.replies[k]))
           => IF Len(g.replies) < maxAttempts
              THEN g.st = "inflight" /\ g.calls = Len(g.replies) + 1
              ELSE /\ Len(g.replies) = maxAttempts
                   /\ g.calls = maxAttempts
                   /\ g.st = "failed"
                   /\ g.error.reason = "invalid-output"
                   /\ g.error.rawContent = ReplyContent(Last(g.replies))
                   /\ g.error.detail =
                        (IF ReplyContent(Last(g.replies)) \in {"garbage", ""}
                         THEN "SyntaxError"
                         ELSE IF ReplyContent(Last(g.replies)) = "thin-pack"
                         THEN "issues:too_small"
                         ELSE "issues:invalid_type")

\* C1 witness: two attempts allowed, two different invalid replies received,
\* the invocation has failed on the second.
C1_Witness ==
    \E g \in Gens :
        /\ maxAttempts = 2
        /\ g.st = "failed"
        /\ g.error.reason = "invalid-output"
        /\ Len(g.replies) = 2
        /\ g.replies[1].content = "garbage"
        /\ g.replies[2].content = "{}"

\* C2: a reply that parses and validates is the last reply the invocation
\* receives: callJsonModel has returned the value parsed from that very
\* reply, after exactly as many calls as replies, the earlier ones all
\* invalid.
C2_ReturnsFirstValid ==
    \A g \in Gens :
        /\ \A k \in DOMAIN g.replies :
              ValidReply(g.schema, g.replies[k]) =>
                  /\ k = Len(g.replies)
                  /\ g.st = "returned"
                  /\ g.calls = k
                  /\ k <= maxAttempts
                  /\ g.value.from = ReplyContent(g.replies[k])
                  /\ g.value.keys = g.schema
                  /\ \A j \in 1..(k - 1) : InvalidReply(g.schema, g.replies[j])
        /\ (g.st = "returned" /\ g.frame) =>
              g.replies # <<>> /\ ValidReply(g.schema, Last(g.replies))

\* C2 witness: the first valid reply came on attempt 2.
C2_Witness ==
    \E g \in Gens :
        /\ g.st = "returned"
        /\ g.calls = 2
        /\ Len(g.replies) = 2
        /\ InvalidReply(g.schema, g.replies[1])
        /\ ValidReply(g.schema, g.replies[2])

\* C3: a completion without a message, or a rejected model call, is the
\* last reply of the invocation: it has failed at once with the transport
\* reason, made no further call, and the conversation is the one that was
\* sent with that call (two opening messages and two per earlier failure).
C3_TransportNotRetried ==
    \A g \in Gens :
        \A k \in DOMAIN g.replies :
            TransportReply(g.replies[k]) =>
                /\ k = Len(g.replies)
                /\ g.st = "failed"
                /\ g.error.reason =
                     (IF g.replies[k].msg = "none" THEN "empty-response" ELSE "transport")
                /\ g.calls = k
                /\ g.frame
                /\ Len(g.messages) = 2 * k

\* C3 witness: a message-less completion on attempt 1 of 2 and the
\* invocation has failed after that single call.
C3_Witness ==
    \E g \in Gens :
        /\ maxAttempts = 2
        /\ g.st = "failed"
        /\ g.error.reason = "empty-response"
        /\ g.calls = 1


StageOrder == <<"normalize", "analyze", "synthesize", "finalize", "publish">>
IsPrefix(s, t) == Len(s) <= Len(t) /\ \A k \in 1..Len(s) : s[k] = t[k]
Succeeded(g) == g.st \in {"returned", "released"}

\* The LessonPack schema of schemas.ts on the modelled fields.
LessonPackValid(pack) ==
    /\ pack.keys = "LessonPack"
    /\ pack.sources >= 3
    /\ pack.inputMetadata.kind \in {"pdf", "markdown", "transcript", "raw-notes", "null"}

\* C4: the stages a file has entered are always an initial part of
\* Normalize, Analyze, Synthesize, Finalize, Publish (strict order, none
\* twice); a stage is entered only when the generations of every earlier
\* stage have returned, Publish only with a pack the full schema accepts;
\* and no agent or publisher of a stage runs before that stage is entered.
C4_StagesInOrder ==
    \A i \in Positions :
        LET n == Len(stageLog[i]) IN
        /\ IsPrefix(stageLog[i], StageOrder)
        /\ n >= 2 => Succeeded(gen[i]["preprocessor"])
        /\ n >= 3 => Succeeded(gen[i]["strategist"]) /\ Succeeded(gen[i]["research"])
        /\ n >= 4 => Succeeded(gen[i]["synthesizer"])
        /\ n >= 5 => pub[i].calls = 1 /\ LessonPackValid(pub[i].pack)
        /\ gen[i]["preprocessor"].st # "idle" => n >= 1
        /\ (\E a \in Analysts : gen[i][a].st # "idle") => n >= 2
        /\ gen[i]["synthesizer"].st # "idle" => n >= 3
        /\ pub[i].calls > 0 => n >= 5
        /\ stage[i] = "idle" <=> n = 0

\* C4 witness: a file went through all five stages and succeeded.
C4_Witness ==
    \E i \in Positions :
        /\ stageLog[i] = StageOrder
        /\ stage[i] = "done"
        /\ Len(results) >= i
        /\ results[i].success

\* C5: once an analysis generation of a file has failed, the file is over
\* with a failure outcome and no published location, its synthesis agent
\* was never called and publishLessonPack was never invoked for it.
C5_AnalysisFailureFailsFile ==
    \A i \in Positions :
        (\E a \in Analysts : gen[i][a].st = "failed") =>
            /\ stage[i] = "done"
            /\ Len(results) >= i
            /\ ~results[i].success
            /\ results[i].googleDocUrl = ""
            /\ gen[i]["synthesizer"].st = "idle"
            /\ gen[i]["synthesizer"].calls = 0
            /\ stageLog[i] = <<"normalize", "analyze">>
            /\ pub[i].calls = 0

\* C5 witness: the research generation failed after the strategist had
\* already returned its output.
C5_Witness ==
    \E i \in Positions :
        /\ gen[i]["research"].st = "failed"
        /\ gen[i]["research"].calls = 2
        /\ gen[i]["strategist"].st = "returned"

\* C6: whenever the synthesis agent of a file has been called, both analysis
\* generations had returned, and its input carries the strategist's value
\* as strategist and the research value as researcher (and the
\* preprocessor's output), each parsed from the reply that agent accepted.
C6_SynthesisAfterBoth ==
    \A i \in Positions :
        LET syn == gen[i]["synthesizer"] IN
        syn.st \in {"inflight", "returned", "failed"} =>
            /\ gen[i]["strategist"].st = "returned"
            /\ gen[i]["research"].st = "returned"
            /\ syn.frame =>
                  /\ syn.input.strategist = gen[i]["strategist"].value
                  /\ syn.input.researcher = gen[i]["research"].value
                  /\ syn.input.strategist.keys = "StrategistOutput"
                  /\ syn.input.researcher.keys = "ResearchAdjOutput"
                  /\ syn.input.preprocessor = gen[i]["preprocessor"].value
                  /\ syn.input.preprocessor.keys = "PreprocessorOutput"

\* C6 witness: synthesis is awaiting its first reply; the strategist needed
\* two calls and the research agent one, so the research output was there
\* first in some run and last in another.
C6_Witness ==
    \E i \in Positions :
        /\ gen[i]["synthesizer"].st = "inflight"
        /\ gen[i]["synthesizer"].calls = 1
        /\ gen[i]["strategist"].calls = 2
        /\ gen[i]["research"].calls = 1

\* C7: publishLessonPack is invoked at most once per file, only after the
\* Finalize stage and only with a pack the full LessonPack schema accepts;
\* a file whose last stage is a failed Finalize has a failure outcome, no
\* publishLessonPack invocation and no model call in flight.
C7_PublishOnlyValidated ==
    \A i \in Positions :
        /\ pub[i].calls <= 1
        /\ pub[i].calls = 1 =>
              /\ LessonPackValid(pub[i].pack)
              /\ IsPrefix(<<"normalize", "analyze", "synthesize", "finalize">>, stageLog[i])
              /\ gen[i]["synthesizer"].st = "returned" =>
                    pub[i].pack.from = gen[i]["synthesizer"].value.from
        /\ pub[i].calls = 0 => pub[i].st = "idle"
        /\ (Len(stageLog[i]) = 4 /\ stage[i] = "done") =>
              /\ pub[i].calls = 0
              /\ Len(results) >= i /\ ~results[i].success
              /\ \A a \in Agents : gen[i][a].st # "inflight"

\* C7 witness: publishLessonPack was invoked for a file whose synthesis agent
\* first sent a pack with too few sources and then a complete one.
C7_Witness ==
    \E i \in Positions :
        /\ pub[i].calls = 1
        /\ pub[i].st = "inflight"
        /\ gen[i]["synthesizer"].st = "returned"
        /\ Len(gen[i]["synthesizer"].replies) = 2
        /\ gen[i]["synthesizer"].replies[1].content = "thin-pack"


\* C8: the outcomes pushed so far are those of the first files of the
\* sorted list, one each and in that order, each a success without error or
\* a failure with an error and no location; and when the run is over every
\* discovered file has its outcome, whatever failed on the way, reading and
\* preprocessing included.
C8_OneOutcomePerFile ==
    /\ \A k, l \in DOMAIN files : k < l => files[k] < files[l]
    /\ Len(results) <= Len(files)
    /\ \A k \in DOMAIN results :
          /\ results[k].file = files[k]
          /\ results[k].success => results[k].error = "none"
          /\ ~results[k].success =>
                results[k].error # "none" /\ results[k].googleDocUrl = ""
    /\ pc = "exited" => Len(results) = Len(files)

\* C9: once the pipeline of a later file has begun, no model call and no
\* remote-store call of an earlier file is in flight.
C9_FilesStrictlySequential ==
    \A i, j \in Positions :
        (i < j /\ stageLog[j] # <<>>) =>
            /\ \A a \in Agents : gen[i][a].st # "inflight"
            /\ pub[i].st # "inflight"

\* The run could not start: no input directory, or discovery failed.
CouldNotStart == mainEnd = "no-input-dir" \/ (mainEnd = "fatal" /\ files = <<>>)

\* C10: the exit status stays unset while files are being processed; at
\* exit it is non-zero exactly when some outcome is a failure or the run
\* could not start, and a run that started has then processed every file.
C10_ExitStatus ==
    /\ pc # "exited" => exitCode = 0
    /\ pc = "exited" =>
          /\ exitCode # 0 <=>
                \/ \E k \in DOMAIN results : ~results[k].success
                \/ CouldNotStart
          /\ ~CouldNotStart => Len(results) = Len(files)


\* C18: while every failure so far was transient, withRetry has invoked the
\* call once per failure (plus the invocation in flight), and the delay it
\* requested after the i-th failure is baseDelay * 2^(i-1), each the double
\* of the one before; after maxRetries + 1 such failures it has thrown the
\* last error after exactly maxRetries + 1 invocations and maxRetries
\* delays, none after the last failure.
C18_BackoffOnTransient ==
    LET f == call.f
        n == call.failures
    IN
    /\ f.invocations <= f.maxRetries + 1
    /\ (call.allTransient /\ n >= 1) =>
          /\ \A i \in DOMAIN f.delays : f.delays[i] = f.baseDelay * 2^(i - 1)
          /\ \A i \in DOMAIN f.delays : i > 1 => f.delays[i] = 2 * f.delays[i - 1]
          /\ IF n <= f.maxRetries
             THEN /\ Len(f.delays) = n
                  /\ \/ f.st = "waiting" /\ f.invocations = n
                     \/ f.st \in {"calling", "returned"} /\ f.invocations = n + 1
             ELSE /\ n = f.maxRetries + 1
                  /\ f.st = "threw"
                  /\ f.error = call.lastError
                  /\ f.invocations = f.maxRetries + 1
                  /\ Len(f.delays) = f.maxRetries

\* C18 witness: the defaults, five transient failures, the delays 1000,
\* 2000, 4000, 8000 and the last error thrown.
C18_Witness ==
    /\ call.f.maxRetries = 4
    /\ call.f.st = "threw"
    /\ call.allTransient
    /\ call.f.invocations = 5
    /\ call.f.delays = <<1000, 2000, 4000, 8000>>

\* C19: withRetry waits and re-invokes only after a transient error with
\* attempts remaining, and always does so then; any other error is thrown
\* as it is, with no delay requested and no invocation after it.
C19_RetryOnlyTransient ==
    LET f == call.f
        n == call.failures
    IN
    /\ f.st = "waiting" => TransientError(call.lastError) /\ n <= f.maxRetries
    /\ (n >= 1 /\ TransientError(call.lastError) /\ n <= f.maxRetries) => f.st # "threw"
    /\ (n >= 1 /\ ~TransientError(call.lastError)) =>
          /\ f.st = "threw"
          /\ f.error = call.lastError
          /\ f.invocations = n
          /\ Len(f.delays) = n - 1
    /\ f.invocations <= Len(f.delays) + 1
    /\ Len(f.delays) <= n

\* C19 witness: a 403 on the first invocation is thrown at once.
C19_Witness ==
    /\ call.f.st = "threw"
    /\ call.lastError.code = 403
    /\ call.f.invocations = 1
    /\ call.f.delays = <<>>
    /\ call.f.maxRetries = 4


\* ------------------------------------------------------ publisher claims
\* The texts a request sequence inserts, joined in order.
RECURSIVE InsertedText(_)
InsertedText(requests) ==
    IF requests = <<>> THEN ""
    ELSE IF Len(requests) = 1
    THEN (IF requests[1].kind = "insertText" THEN requests[1].text ELSE "")
    ELSE LET half == Len(requests) \div 2 IN
         InsertedText(SubSeq(requests, 1, half))
            \o InsertedText(SubSeq(requests, half + 1, Len(requests)))

\* Two records with the same title, motion, context and argument cases.
SameCanonical(a, b) ==
    /\ a.title = b.title
    /\ a.motionOrTopic = b.motionOrTopic
    /\ a.context = b.context
    /\ a.govCase = b.govCase
    /\ a.oppCase = b.oppCase

Started(r) == r.pc # "idle"
Duplicates ==
    \E i, j \in DOMAIN store : i # j /\ store[i].appProperties = store[j].appProperties

\* C11: the fingerprint a publish computed is the one recomputed from its
\* record at any later time, and two publishes whose records agree on title,
\* motion, context and both cases carry the same fingerprint, whatever
\* their input metadata.
C11_FingerprintCanonical ==
    \A p, q \in Publishers :
        (Started(publ[p]) /\ Started(publ[q])) =>
            /\ publ[p].fingerprint = generateContentFingerprint(publ[p].pack)
            /\ SameCanonical(publ[p].pack, publ[q].pack) =>
                  publ[p].fingerprint = publ[q].fingerprint

\* C11 witness: two publishes of the same content under different filenames.
C11_Witness ==
    \E p, q \in Publishers :
        /\ Started(publ[p]) /\ Started(publ[q])
        /\ SameCanonical(publ[p].pack, publ[q].pack)
        /\ publ[p].pack.inputMetadata.filename # publ[q].pack.inputMetadata.filename
        /\ publ[p].fingerprint = publ[q].fingerprint

\* C12: a publish that returns without having found a document has created
\* exactly one, which is in the store with the record's fingerprint; it
\* applied the rendered instructions to it after creating it; the id it
\* returns is that document's and the URL is not empty (the store's link, or
\* one made from the id).  No publish ever creates more than one document.
C12_CreatesOneDocument ==
    \A p \in Publishers :
        LET r == publ[p] IN
        /\ Cardinality(r.created) <= 1
        /\ (r.pc = "returned" /\ ~r.isUpdate) =>
              /\ r.created = {r.docId}
              /\ r.docId \in DOMAIN store
              /\ store[r.docId].appProperties =
                    <<r.pack.title, r.pack.motionOrTopic, r.pack.context,
                      r.pack.govCase, r.pack.oppCase>>
              /\ r.log = <<"search", "create", "apply", "meta">>
              /\ r.docUrl \in {<<"webViewLink", r.docId>>, <<"synthesized", r.docId>>}
              /\ (\A q \in Publishers \ {p} : ~Started(publ[q])) =>
                    store[r.docId].body = InsertedText(buildRequests(r.pack, format))

\* C12 witness: the store held nothing, the search was answered, and the
\* publish returned a URL made from the id of the document it created.
C12_Witness ==
    \E p \in Publishers :
        /\ publ[p].pc = "returned"
        /\ ~publ[p].searchFailed
        /\ publ[p].foundAtSearch = {}
        /\ publ[p].created = {1}
        /\ publ[p].docUrl = <<"synthesized", 1>>
        /\ Len(store) = 1

\* C13: a publish whose search was answered with a matching document and
\* that returns has created nothing: it took the id from the search, got
\* the document, cleared it, then applied the batch, and returns that id;
\* when its batch was applied the document held the instructions once (no
\* publish overlapping), and it returns the id every other publish of the
\* same content returned (no fingerprint being on two documents).
C13_SecondPublishReuses ==
    \A p \in Publishers :
        LET r == publ[p] IN
        (r.pc = "returned" /\ r.foundAtSearch # {}) =>
            /\ r.isUpdate
            /\ r.created = {}
            /\ r.docId \in r.foundAtSearch
            /\ r.log = <<"search", "get", "clear", "apply", "meta">>
            /\ r.docUrl[2] = r.docId
            /\ store[r.docId].appProperties = r.fingerprint
            /\ ~overlap =>
                  r.leftBody = InsertedText(buildRequests(r.pack, format))
            /\ ~Duplicates =>
                  \A q \in Publishers \ {p} :
                      (publ[q].pc = "returned" /\ SameCanonical(publ[q].pack, r.pack))
                          => publ[q].docId = r.docId

\* C13 witness: the first publish created document 1 and returned; the
\* second, same content under another filename, returned document 1 too.
C13_Witness ==
    /\ ~overlap
    /\ publ[1].pc = "returned" /\ publ[1].created = {1}
    /\ publ[2].pc = "returned" /\ publ[2].isUpdate /\ publ[2].docId = 1
    /\ publ[1].pack.inputMetadata.filename # publ[2].pack.inputMetadata.filename
    /\ Len(store) = 1

\* C14: as long as no publish began while another was running, no two
\* documents of the store carry the same fingerprint.
C14_OneDocPerFingerprint == ~overlap => ~Duplicates

\* C15: a publish whose search was answered "no match" creates without
\* looking again, so two overlapping publishes of one fingerprint both
\* create; with every search answered, two documents with one fingerprint
\* arise in this way only, from publishes that overlapped.
C15_RaceCreatesDuplicates ==
    /\ \A p \in Publishers :
          LET r == publ[p] IN
          (~r.searchFailed /\ r.foundAtSearch = {} /\ r.pc \in {"apply", "meta", "returned"})
              => Cardinality(r.created) = 1
    /\ (Duplicates /\ \A p \in Publishers : ~publ[p].searchFailed) => overlap
    /\ \A p \in Publishers : publ[p].foundAtSearch # {} => publ[p].created = {}

\* C15 witness: both searches were answered with no match, both publishes
\* created, and the store holds two documents with the same fingerprint.
C15_Witness ==
    /\ overlap
    /\ \A p \in Publishers :
          /\ ~publ[p].searchFailed
          /\ publ[p].foundAtSearch = {}
          /\ Cardinality(publ[p].created) = 1
    /\ Duplicates

\* C16: a publish never fails on its search: when the search threw (a
\* non-transient error, or transient errors on all attempts) the publish
\* went on to create a fresh document, and any failure it ends with comes
\* from a later call.
C16_SearchFailureSwallowed ==
    \A p \in Publishers :
        LET r == publ[p] IN
        /\ r.pc = "failed" => r.log # <<>>
        /\ r.searchFailed =>
              /\ ~r.isUpdate
              /\ r.foundAtSearch = {}
              /\ r.pc \in {"create", "apply", "meta", "returned", "failed"}
              /\ r.log[1] = "search"
              /\ Len(r.log) >= 2 => r.log[2] = "create" /\ Cardinality(r.created) = 1

\* C16 witness: the search used up all its attempts, and the publish
\* returned the document it then created.
C16_Witness ==
    \E p \in Publishers :
        /\ publ[p].searchFailed
        /\ publ[p].priorExhausted
        /\ publ[p].pc = "returned"
        /\ publ[p].created # {}

\* C17: with publishing unconfigured no publishLessonPack invocation ever
\* awaits the remote store, and the file it was invoked for has a success
\* outcome with no published location.
C17_UnconfiguredIsNoOp ==
    googleMode = "none" =>
        \A i \in Positions :
            /\ pub[i].st \in {"idle", "null"}
            /\ pub[i].st = "null" =>
                  /\ Len(results) >= i
                  /\ results[i].success
                  /\ results[i].googleDocUrl = ""
                  /\ results[i].error = "none"

\* C17 witness: the first file went through publishLessonPack, which
\* returned null.
C17_Witness ==
    /\ googleMode = "none"
    /\ pub[1].st = "null"
    /\ pub[1].calls = 1
    /\ results[1].success

\* C20: every remote call a publish awaits sits in a withRetry frame of its
\* own with the default options: the frame has made as many invocations as
\* its attempt counter says, at most maxRetries + 1, whatever earlier calls
\* of the publish spent; and a publish that failed on a transient error
\* failed after maxRetries + 1 invocations of that one call.
C20_OwnRetryPerCall ==
    \A p \in Publishers :
        LET r == publ[p] IN
        /\ Running(r) =>
              /\ r.f.st \in {"calling", "waiting"}
              /\ r.f.maxRetries = 4 /\ r.f.baseDelay = 1000
              /\ r.f.invocations = r.f.attempt
              /\ r.f.attempt <= 5
              /\ Len(r.f.delays) = r.f.attempt - (IF r.f.st = "calling" THEN 1 ELSE 0)
        /\ (r.pc = "failed" /\ TransientError(r.error)) => r.f.invocations = 5

\* C20 witness: an earlier call of the publish used all five attempts, and
\* the final metadata fetch is on its own fifth attempt.
C20_Witness ==
    \E p \in Publishers :
        /\ publ[p].priorExhausted
        /\ publ[p].pc = "meta"
        /\ publ[p].f.st = "calling"
        /\ publ[p].f.attempt = 5

\* ------------------------------------------------- credential failure
\* C21: a missing OAuth token file is raised before any generation call or
\* remote-store call of any file: whenever publishLessonPack has thrown on
\* the missing token, no callJsonModel invocation of any file has begun and
\* no file has been taken up after it.
C21_CredentialFailureAtStartup ==
    \A i \in Positions :
        pub[i].st = "throws" =>
            /\ \A j \in Positions, a \in Agents : gen[j][a].st = "idle"
            /\ \A j \in Positions : j > i => stageLog[j] = <<>>


\* -------------------------------------------------------- render claims
\* The requests a render call added to the builder it began from.
Added == SubSeq(builder.requests, Len(rendered.from.requests) + 1,
                Len(builder.requests))

\* C22: after buildRequests has rendered a record, the total length of the
\* text its requests insert equals the builder's final cursor minus 1; each
\* insertion is placed at 1 plus the length of the text inserted before it,
\* and the same holds of the text formatArgumentSection adds to a builder
\* that already holds text.
C22_CursorTracksInsertedText ==
    rendered.fn # "" =>
        /\ Len(InsertedText(Added)) = builder.index - rendered.from.index
        /\ rendered.fn = "buildRequests" =>
             Len(InsertedText(builder.requests)) = builder.index - 1
        /\ \A k \in 1..Len(Added) :
             Added[k].kind = "insertText" =>
                Added[k].startIndex =
                    rendered.from.index + Len(InsertedText(SubSeq(Added, 1, k - 1)))

C22_Witness ==
    /\ rendered.fn = "buildRequests"
    /\ ValidLessonPack(record)
    /\ Len(record.govCase) = 2
    /\ record.motionOrTopic # ""
    /\ Len(record.glossary) > 0
    /\ builder.index - 1 = Len(InsertedText(builder.requests))
    /\ builder.index > 100


\* The texts of the headings of a level, in the order the requests give
\* them: the insertions a paragraph style of that level is laid over.
HeadingTexts(requests, level) ==
    LET pairs == [k \in 1..(Len(requests) - 1) |-> <<requests[k], requests[k + 1]>>]
        styled == SelectSeq(pairs, LAMBDA p :
                      /\ p[1].kind = "insertText"
                      /\ p[2].kind = "updateParagraphStyle"
                      /\ p[2].style = level
                      /\ p[2].startIndex = p[1].startIndex
                      /\ p[2].endIndex = p[1].startIndex + Len(p[1].text))
    IN [k \in 1..Len(styled) |-> styled[k][1].text]

\* The "(no content)" paragraphs among the requests.
NoContentParagraphs(requests) ==
    SelectSeq(requests, LAMBDA r : r.kind = "insertText" /\ r.text = "(no content)\n")

\* C23: formatArgumentSection on an empty list emits the section heading
\* followed by exactly one "(no content)" paragraph and no level-3 heading;
\* on a non-empty list it emits the section heading, one level-3 heading
\* per argument numbered from 1 in list order, and no "(no content)"
\* paragraph; a whole document holds one "(no content)" paragraph per empty
\* case list rendered.
C23_EmptyCaseSection ==
    /\ rendered.fn = "formatArgumentSection" =>
         LET items == record.govCase
             heading == IF format = "AUS" THEN "Affirmative Case" ELSE "Government Case"
         IN /\ HeadingTexts(Added, "HEADING_2") = <<heading \o "\n">>
            /\ Added[1] = insertText(rendered.from.index, heading \o "\n")
            /\ IF items = <<>>
               THEN /\ Len(Added) = 3
                    /\ Added[3] = insertText(rendered.from.index + Len(heading) + 1,
                                             "(no content)\n")
                    /\ HeadingTexts(Added, "HEADING_3") = <<>>
               ELSE /\ HeadingTexts(Added, "HEADING_3") =
                          [k \in 1..Len(items) |->
                              ToString(k) \o ". " \o items[k].claim \o "\n"]
                    /\ NoContentParagraphs(Added) = <<>>
    /\ rendered.fn = "buildRequests" =>
         Len(NoContentParagraphs(Added)) = IF record.govCase = <<>> THEN 1 ELSE 0

C23_Witness ==
    /\ rendered.fn = "formatArgumentSection"
    /\ record.govCase = <<>>
    /\ rendered.from # DocsBuilder
    /\ Len(builder.requests) = Len(rendered.from.requests) + 3
    /\ Last(builder.requests).text = "(no content)\n"


\* The level-2 sections in their fixed order, and the level-2 sections
\* buildRequests emits for a record: a section is left out when the record
\* has nothing for it.
SectionOrder(fmt) ==
    <<"First Principles",
      IF fmt = "AUS" THEN "Affirmative Case" ELSE "Government Case",
      IF fmt = "AUS" THEN "Negative Case" ELSE "Opposition Case",
      "Counter Cases", "Extensions", "Rebuttal Ladders", "Weighing", "Drills",
      "Glossary", "Examples Bank", "Sources">>

SectionsOf(pack, fmt) ==
    LET present ==
            <<TRUE, TRUE, TRUE, pack.counterCases # <<>>, pack.extensions # <<>>,
              pack.rebuttalLadders # <<>>, TRUE, pack.drills # <<>>,
              pack.glossary # <<>>, pack.examplesBank # <<>>, TRUE>>
        kept == SelectSeq([k \in 1..Len(present) |-> k], LAMBDA k : present[k])
    IN [k \in 1..Len(kept) |-> SectionOrder(fmt)[kept[k]] \o "\n"]

\* The insertions that begin with a prefix.
Beginning(requests, prefix) ==
    SelectSeq(requests, LAMBDA r :
        /\ r.kind = "insertText"
        /\ Len(r.text) >= Len(prefix)
        /\ SubSeq(r.text, 1, Len(prefix)) = prefix)

\* C24: the requests buildRequests returns begin with the insertion of the
\* title and a newline at index 1, styled HEADING_1 over exactly that text,
\* and it is the only level-1 heading; the motion line and then the context
\* line follow it directly when the record has them; the level-2 headings
\* are the emitted sections once each in the fixed order; and the input-file
\* line, when the record has a filename, is the last request.
C24_FixedSectionOrder ==
    rendered.fn = "buildRequests" =>
        LET requests == builder.requests
            hasMotion == record.motionOrTopic # ""
            hasContext == record.context # ""
            next == 3 + (IF hasMotion THEN 1 ELSE 0)
            after == next + (IF hasContext THEN 1 ELSE 0)
        IN /\ requests[1] = insertText(1, record.title \o "\n")
           /\ requests[2] = updateParagraphStyle(1, 1 + Len(record.title) + 1, 1)
           /\ HeadingTexts(requests, "HEADING_1") = <<record.title \o "\n">>
           /\ Beginning(requests, "Motion: ") =
                 IF hasMotion THEN <<requests[3]>> ELSE <<>>
           /\ Beginning(requests, "Context: ") =
                 IF hasContext THEN <<requests[next]>> ELSE <<>>
           /\ requests[after].text = "First Principles\n"
           /\ HeadingTexts(requests, "HEADING_2") = SectionsOf(record, format)
           /\ Beginning(requests, "Input file: ") =
                 IF record.inputMetadata.filename # 0
                 THEN <<Last(requests)>> ELSE <<>>
           /\ record.inputMetadata.filename = 0 =>
                 Last(requests).text = "s3 - https://e.org/s3\n"

C24_Witness ==
    /\ rendered.fn = "buildRequests"
    /\ Len(HeadingTexts(builder.requests, "HEADING_2")) = 11
    /\ builder.requests[3].text = "Motion: This house would\n"
    /\ builder.requests[4].text = "Context: background\n"
    /\ Last(builder.requests).text = "Input file: 1\n"


\* ------------------------------------------------- conversation claims
\* What the correction message says was wrong with a reply content.
FailureOf(content) ==
    IF content \in {"garbage", ""} THEN "SyntaxError"
    ELSE IF content = "thin-pack" THEN "issues:too_small"
    ELSE "issues:invalid_type"

\* The conversation of an invocation that has made n calls.
ConversationOf(g, n) ==
    [m \in 1..(2 * n) |->
        IF m = 1 THEN ChatMessage("system", g.schema)
        ELSE IF m = 2 THEN ChatMessage("user", "userPrompt")
        ELSE IF m % 2 = 1
        THEN ChatMessage("assistant", ReplyContent(g.replies[(m - 1) \div 2]))
        ELSE ChatMessage("user", FailureOf(ReplyContent(g.replies[(m - 2) \div 2])))]

C25_Conversation ==
    \A g \in Gens : g.frame => g.messages = ConversationOf(g, g.calls)

C25_MessagesKept ==
    \A i \in Positions, a \in Agents :
        (gen[i][a].frame /\ gen'[i][a].frame) =>
            IsPrefix(gen[i][a].messages, gen'[i][a].messages)

\* C25: while an invocation of callJsonModel runs, and when it settles, its
\* message list is the system message, the user message and, for each
\* earlier failed attempt in order, an assistant message with that reply's
\* content and a user message naming its failure: 2n messages at the n-th
\* call, none added by the final attempt; and a step only ever appends to
\* the list.
C25_ConversationGrowsByPairs == []C25_Conversation /\ [][C25_MessagesKept]_vars

\* C25 witness: the third call is in flight after a non-JSON reply and a
\* reply with neither content shape; six messages were sent with it.
C25_Witness ==
    \E g \in Gens :
        /\ g.st = "inflight"
        /\ g.calls = 3
        /\ Len(g.messages) = 6
        /\ g.replies[1].msg = "string"
        /\ g.replies[2].msg = "other"
        /\ g.messages[5] = ChatMessage("assistant", "")


\* C26: a completion whose message content is neither a string nor an
\* array counts as a failed attempt with empty content: while attempts
\* remain the next call is made and the conversation replays it as an empty
\* assistant message with a correction naming the parse failure; on the
\* final attempt the invocation fails with invalid-output and empty raw
\* content, never with empty-response.  An array content is the texts of
\* its parts joined in order: the accepted JSON sent in pieces is returned
\* as the value parsed from the whole.
C26_ContentShapes ==
    \A g \in Gens :
        g.frame =>
            \A k \in DOMAIN g.replies :
                /\ g.replies[k].msg = "other" =>
                     IF k < maxAttempts
                     THEN /\ g.calls >= k + 1
                          /\ g.messages[2 * k + 1] = ChatMessage("assistant", "")
                          /\ g.messages[2 * k + 2] = ChatMessage("user", "SyntaxError")
                          /\ k = Len(g.replies) => g.st = "inflight"
                     ELSE /\ k = Len(g.replies)
                          /\ g.calls = maxAttempts
                          /\ g.st = "failed"
                          /\ g.error = [reason |-> "invalid-output",
                                        detail |-> "SyntaxError", rawContent |-> ""]
                /\ g.replies[k].msg = "parts" =>
                     /\ k = Len(g.replies)
                     /\ g.st = "returned"
                     /\ g.value = JsonParse(PartsText(g.replies[k].parts))
                     /\ g.value.keys = g.schema

\* C26 witness: with three attempts allowed the first reply had neither
\* content shape, the second was the accepted JSON in parts, and the
\* invocation returned after two calls.
C26_Witness ==
    \E g \in Gens :
        /\ maxAttempts = 3
        /\ Len(g.replies) = 2
        /\ g.replies[1].msg = "other"
        /\ g.replies[2].msg = "parts"
        /\ g.messages[3] = ChatMessage("assistant", "")
        /\ g.st = "returned"
        /\ g.calls = 2


\* ------------------------------------------------------ sibling analysis
\* The step in which agent a of file i receives a completion.
CompletionOf(i, a) ==
    CASE a = "preprocessor" -> Normalized(i)
      [] a = "synthesizer" -> Synthesised(i)
      [] OTHER -> Analysed(i, a)

\* An analyst of a file whose outcome is already recorded goes on as any
\* invocation does: its locals are intact, it has made one call more than
\* it has replies, no more than maxAttempts, with the conversation those
\* replies give.
C27_SiblingRuns ==
    \A i \in Positions, a \in Analysts :
        (stage[i] = "done" /\ gen[i][a].st = "inflight") =>
            LET g == gen[i][a] IN
            /\ g.frame
            /\ g.calls = Len(g.replies) + 1
            /\ g.calls <= maxAttempts
            /\ g.messages = ConversationOf(g, g.calls)

\* An invocation awaiting a model call changes only in the step in which
\* its own completion arrives.
C27_OnlyItsCompletion ==
    \A i \in Positions, a \in Agents :
        (gen[i][a].st = "inflight" /\ gen'[i][a] # gen[i][a]) => CompletionOf(i, a)

\* C27: no in-flight generation is cancelled.  After one analysis
\* generation has failed and the file's failure is recorded, the sibling
\* still awaiting a model call stays as it is until its own completion
\* arrives, whatever else the run does (recording the outcome, taking the
\* next file, ending), and then goes on through its remaining attempts.
C27_NoCancellation == []C27_SiblingRuns /\ [][C27_OnlyItsCompletion]_vars

\* C27 witness: the strategist failed on its only call and the file is
\* recorded as failed, while the research agent, whose first reply was
\* invalid, awaits its second call.
C27_Witness ==
    \E i \in Positions :
        /\ stage[i] = "done"
        /\ Len(results) >= i
        /\ ~results[i].success
        /\ gen[i]["strategist"].st \in {"failed", "released"}
        /\ gen[i]["research"].st = "inflight"
        /\ gen[i]["research"].calls = 2
        /\ Len(gen[i]["research"].replies) = 1


\* ------------------------------------------------------------- the stamp
\* C28: the pack publishLessonPack is invoked with has the file's own name
\* and detected kind as inputMetadata, whatever the synthesis agent's JSON
\* said; it passed the full schema with that stamp on it, Finalize having
\* come before Publish; and its other fields are the ones the synthesis
\* agent returned.
C28_StampedBeforePublish ==
    \A i \in Positions :
        pub[i].calls = 1 =>
            /\ pub[i].pack.inputMetadata =
                  [filename |-> files[i],
                   kind |-> IF files[i] % 2 = 0 THEN "pdf" ELSE "markdown"]
            /\ LessonPackValid(pub[i].pack)
            /\ IsPrefix(<<"normalize", "analyze", "synthesize", "finalize", "publish">>,
                        stageLog[i])
            /\ gen[i]["synthesizer"].st = "returned" =>
                  LET returned == gen[i]["synthesizer"].value IN
                  /\ returned.inputMetadata = [filename |-> 0, kind |-> "transcript"]
                  /\ pub[i].pack.keys = returned.keys
                  /\ pub[i].pack.sources = returned.sources
                  /\ pub[i].pack.from = returned.from

\* C28 witness: the second file, a PDF, is being published; the synthesis
\* agent had returned transcript metadata without a filename.
C28_Witness ==
    \E i \in Positions :
        /\ pub[i].calls = 1
        /\ files[i] = 2
        /\ gen[i]["synthesizer"].st = "returned"
        /\ gen[i]["synthesizer"].value.inputMetadata.kind = "transcript"
        /\ pub[i].pack.inputMetadata = [filename |-> 2, kind |-> "pdf"]
        /\ pub[i].pack.sources = 3


\* ----------------------------------------------------- clearing a document
\* C29: an invocation sends at most one deleteContentRange, only on the
\* update path and before its batch; the range runs from 1 to the fetched
\* end index minus 1 and is never empty (start < end): for a document that
\* is already empty no delete is sent.
C29_ClearRangeNonEmpty ==
    \A p \in Publishers :
        LET r == publ[p] IN
        /\ Len(r.deletes) <= 1
        /\ \A k \in DOMAIN r.deletes :
              /\ r.isUpdate
              /\ r.deletes[k] = <<1, r.endIndex - 1>>
              /\ r.deletes[k][1] < r.deletes[k][2]
        /\ \A k, l \in DOMAIN r.log :
              (r.log[k] = "clear" /\ r.log[l] = "apply") => k < l


\* ------------------------------------------------------- the search claim
\* C30: when the search has been answered and the scope holds a document
\* with the record's fingerprint, publishLessonPack goes on to update a
\* document that has it, however many documents the scope holds; it goes on
\* to create one only when no document of the scope has it.
C30_SearchFindsMatch ==
    \A p \in Publishers :
        LET r == publ[p]
            inScope == {id \in DOMAIN store : store[id].appProperties = r.fingerprint}
        IN r.log = <<"search">> =>
              IF inScope # {}
              THEN r.pc = "get" /\ r.isUpdate /\ r.docId \in inScope
              ELSE r.pc = "create" /\ ~r.isUpdate

\* ------------------------------------------------ the text of the document
\* C31: when a publish has returned, the text its document held once its
\* batch had been applied was exactly the texts its instructions insert,
\* joined in order (the body leaves out the document's own final newline):
\* nothing of an earlier version and nothing twice, for a document it
\* created and for one it reused.
C31_BodyIsRendering ==
    \A p \in Publishers :
        LET r == publ[p] IN
        r.pc = "returned" =>
            r.leftBody = InsertedText(buildRequests(r.pack, format))

\* The same for the publishes that no other publish overlapped.
C31_SequentialBodyIsRendering == ~overlap => C31_BodyIsRendering

\* ------------------------------------------------- a document left behind
\* A publish that failed after creating document 1, and a publish of the
\* same canonical content that returned, no publish having begun while
\* another was running: the failed one ran first.
LeftBehind(p, q) ==
    /\ ~overlap
    /\ publ[p].pc = "failed"
    /\ publ[p].created = {1}
    /\ publ[q].pc = "returned"
    /\ SameCanonical(publ[p].pack, publ[q].pack)

\* C32: a document created by a publish that then failed stays in the
\* store with its fingerprint, and a later publish of the same canonical
\* content that returns has reused it (search, get, clear, apply, meta)
\* and created no second document.
C32_OrphanReused ==
    \A p, q \in Publishers :
        (p # q /\ LeftBehind(p, q)) =>
            /\ store[1].appProperties = publ[p].fingerprint
            /\ publ[q].created = {}
            /\ publ[q].docId = 1
            /\ publ[q].log = <<"search", "get", "clear", "apply", "meta">>
            /\ Len(store) = 1

\* The same for the later publishes whose search was answered.
C32_OrphanReusedWhenFound ==
    \A p, q \in Publishers :
        (p # q /\ LeftBehind(p, q) /\ ~publ[q].searchFailed) =>
            /\ store[1].appProperties = publ[p].fingerprint
            /\ publ[q].created = {}
            /\ publ[q].docId = 1
            /\ publ[q].log = <<"search", "get", "clear", "apply", "meta">>
            /\ Len(store) = 1

\* -------------------------------------------------- success after retries
\* C33: when withRetry has returned, fn() was invoked k times, 1 <= k <=
\* maxRetries + 1: k - 1 invocations failed, all with a transient error,
\* the k-th fulfilled; k - 1 delays were requested, the i-th being
\* baseDelay * 2^(i-1).
C33_Returned ==
    LET f == call.f
        k == f.invocations
    IN
    f.st = "returned" =>
        /\ 1 <= k /\ k <= f.maxRetries + 1
        /\ call.failures = k - 1
        /\ call.allTransient
        /\ Len(f.delays) = k - 1
        /\ \A i \in 1..(k - 1) : f.delays[i] = f.baseDelay * 2^(i - 1)

\* Once withRetry has returned, fn() is not invoked again and no delay is
\* requested.
C33_NothingAfterSuccess ==
    call.f.st = "returned" => call' = call

C33_SuccessAfterRetries == []C33_Returned /\ [][C33_NothingAfterSuccess]_vars

\* C33 witness: the defaults, four transient failures, then success on the
\* fifth and last attempt after the delays 1000, 2000, 4000, 8000.
C33_Witness ==
    /\ call.f.st = "returned"
    /\ call.f.maxRetries = maxRetriesDefault
    /\ call.f.baseDelay = baseDelayDefault
    /\ call.failures = 4
    /\ call.f.invocations = 5
    /\ call.f.delays = <<1000, 2000, 4000, 8000>>

\* --------------------------------------------------------- builder claims
\* The requests of the builder before position j.
Earlier(requests, j) == SubSeq(requests, 1, j - 1)

\* The requests the last call appended.
Appended == SubSeq(builder.requests, Len(rendered.from.requests) + 1,
                   Len(builder.requests))

\* Every insertText of the builder sits at 1 plus the length of the text
\* inserted before it, and the cursor at 1 plus the length of all of it.
C34_Contiguous ==
    /\ builder.index = 1 + Len(InsertedText(builder.requests))
    /\ builder.index >= 1
    /\ \A j \in DOMAIN builder.requests :
          builder.requests[j].kind = "insertText" =>
              builder.requests[j].startIndex
                  = 1 + Len(InsertedText(Earlier(builder.requests, j)))

\* A builder call keeps the requests already made, never moves the cursor
\* back, inserts at the cursor held before the call and moves the cursor
\* on by the length of what it inserted.
C34_CallAppends ==
    builder' # builder =>
        /\ SubSeq(builder'.requests, 1, Len(builder.requests)) = builder.requests
        /\ builder'.index >= builder.index
        /\ \A j \in (Len(builder.requests) + 1)..Len(builder'.requests) :
              builder'.requests[j].kind = "insertText" =>
                  builder'.requests[j].startIndex = builder.index
        /\ builder'.index - builder.index
              = Len(InsertedText(builder'.requests)) - Len(InsertedText(builder.requests))

\* C34: the cursor starts at 1 and never decreases; each insertText is
\* placed at the cursor held just before it, which is 1 plus the length of
\* all text inserted earlier, and the cursor then advances by exactly the
\* inserted length: insertions are contiguous and append-only.
C34_CursorAppendOnly == []C34_Contiguous /\ [][C34_CallAppends]_vars

\* C34 witness: a heading, a paragraph and a list have been added, the
\* third insertion sits behind the first two and the cursor behind all.
C34_Witness ==
    /\ Len(builder.requests) = 5
    /\ builder.requests[1].kind = "insertText"
    /\ builder.requests[3].kind = "insertText"
    /\ builder.requests[4].kind = "insertText"
    /\ builder.requests[5].kind = "createParagraphBullets"
    /\ builder.requests[4].startIndex
          = 1 + Len(builder.requests[1].text) + Len(builder.requests[3].text)
    /\ builder.requests[4].startIndex > 3
    /\ builder.index = builder.requests[4].startIndex + Len(builder.requests[4].text)

\* ------------------------------------------------------- the batch's turn
\* The request whose turn it is, and the one before it.
Turn == builder.requests[applying.at + 1]
BeforeTurn == builder.requests[applying.at]
AtTurn == rendered.fn = "buildRequests" /\ applying.at < Len(builder.requests)

\* C35: while the rendered batch is applied in order to an empty or just
\* cleared document no request is refused; at its turn an insertText has its
\* index inside the text or at its end, and a style or list request has a
\* range that lies within the text inserted so far and is exactly the text
\* the request before it, of the same builder call, inserted.  At the end
\* the document holds the inserted texts in order.
C35_ValidAtItsTurn ==
    LET body == applying.doc.body IN
    /\ ~applying.doc.refused
    /\ AtTurn =>
          IF Turn.kind = "insertText"
          THEN 1 <= Turn.startIndex /\ Turn.startIndex <= Len(body) + 1
          ELSE /\ 1 <= Turn.startIndex
               /\ Turn.startIndex < Turn.endIndex
               /\ Turn.endIndex <= Len(body) + 1
               /\ applying.at >= 1
               /\ BeforeTurn.kind = "insertText"
               /\ BeforeTurn.startIndex = Turn.startIndex
               /\ SubSeq(body, Turn.startIndex, Turn.endIndex - 1) = BeforeTurn.text
    /\ (rendered.fn = "buildRequests" /\ applying.at = Len(builder.requests)) =>
          body = InsertedText(builder.requests)

\* C35 witness: it is the turn of a list request deep in the batch; the
\* text it covers is in the document, which has not refused anything.
C35_Witness ==
    /\ AtTurn
    /\ applying.at > 20
    /\ Turn.kind = "createParagraphBullets"
    /\ Turn.startIndex > 100
    /\ ~applying.doc.refused
    /\ Len(applying.doc.body) + 1 = Turn.endIndex

\* The block of a list: every item followed by a newline, in order.
RECURSIVE BlockOf(_)
BlockOf(items) ==
    IF items = <<>> THEN ""
    ELSE BlockOf(SubSeq(items, 1, Len(items) - 1)) \o items[Len(items)] \o "\n"

\* C36: after addBulletList(items), an empty list has left the requests and
\* the cursor as they were; a non-empty list has appended exactly one
\* insertText of the whole block at the cursor held before, then exactly one
\* createParagraphBullets over the range from that cursor to the end of the
\* block, and has moved the cursor on by the length of the block.
C36_BulletList ==
    rendered.fn = "addBulletList" =>
        LET from == rendered.from
            block == BlockOf(rendered.items)
        IN
        IF rendered.items = <<>>
        THEN builder = from
        ELSE /\ Len(block) > 0
             /\ Appended = <<insertText(from.index, block),
                             createParagraphBullets(from.index, from.index + Len(block))>>
             /\ SubSeq(builder.requests, 1, Len(from.requests)) = from.requests
             /\ builder.index = from.index + Len(block)

\* C36 witness: a two-item list was added behind earlier text, and an
\* empty list was added to a builder that already held requests.
C36_Witness ==
    /\ rendered.fn = "addBulletList"
    /\ rendered.items = <<"x", "yz">>
    /\ rendered.from.index > 1
    /\ Len(builder.requests) = Len(rendered.from.requests) + 2
    /\ builder.index = rendered.from.index + 5

\* The empty list's case of C36 has happened.
C36_WitnessEmpty ==
    /\ rendered.fn = "addBulletList"
    /\ rendered.items = <<>>
    /\ Len(rendered.from.requests) > 0
    /\ builder = rendered.from

\* ------------------------------------------------------ empty collections
\* A paragraph or heading with this text is among the requests rendered.
Emitted(text) ==
    \E j \in DOMAIN builder.requests :
        /\ builder.requests[j].kind = "insertText"
        /\ builder.requests[j].text = text \o "\n"

\* The arguments of the record, of every case.
ArgumentsOf(pack) == pack.govCase \o pack.oppCase \o pack.counterCases
NoArgumentHas(pack, field) ==
    \A k \in DOMAIN ArgumentsOf(pack) : ArgumentsOf(pack)[k][field] = <<>>

\* The collections of the record other than tests: when one is empty or
\* absent its heading or label line is not rendered, and an empty
\* argument case renders the placeholder.
EmptyOnesSkipped ==
    LET fp == record.firstPrinciples
        w == record.weighing
    IN
    /\ fp.assumptions = <<>> => ~Emitted("Assumptions:")
    /\ fp.theories = <<>> => ~Emitted("Theories:")
    /\ record.counterCases = <<>> => ~Emitted("Counter Cases")
    /\ record.extensions = <<>> => ~Emitted("Extensions")
    /\ record.rebuttalLadders = <<>> => ~Emitted("Rebuttal Ladders")
    /\ w.adjudicatorNotes = <<>> => ~Emitted("Adjudicator Notes:")
    /\ w.commonPitfalls = <<>> => ~Emitted("Common Pitfalls:")
    /\ w.POIAdvice = <<>> => ~Emitted("POI Advice:")
    /\ w.whipAdvice = <<>> => ~Emitted("Whip Advice:")
    /\ record.drills = <<>> => ~Emitted("Drills")
    /\ record.glossary = <<>> => ~Emitted("Glossary")
    /\ record.examplesBank = <<>> => ~Emitted("Examples Bank")
    /\ NoArgumentHas(record, "stakeholders") => ~Emitted("Stakeholders affected:")
    /\ NoArgumentHas(record, "preempts") => ~Emitted("Pre-empts:")
    /\ NoArgumentHas(record, "examples") => ~Emitted("Examples:")
    /\ record.govCase = <<>> => Emitted("(no content)")

\* The same for firstPrinciples.tests.
EmptyTestsSkipped ==
    (record.firstPrinciples.tests.null \/ record.firstPrinciples.tests.items = <<>>)
        => ~Emitted("Tests:")

\* C37: in the requests buildRequests returns, an empty or absent collection
\* of the record, of its arguments or of its examples has neither items nor
\* heading or label line; only an empty argument case renders its heading,
\* with the "(no content)" placeholder.
C37_EmptyCollectionsSkipped ==
    rendered.fn = "buildRequests" => (EmptyOnesSkipped /\ EmptyTestsSkipped)

\* The same without the tests of the first principles.
C37_OtherCollectionsSkipped ==
    rendered.fn = "buildRequests" => EmptyOnesSkipped

\* ----------------------------------------------------------- table claims
\* The cell offsets of a fetched structure.
FetchedOffsets(tableRows) ==
    {tableRows[r][c] : r \in DOMAIN tableRows, c \in 1..Len(tableRows[1])}

\* The remote calls of the protocol in their order.
TableProtocol == <<"shape", "get", "fill">>

\* The calls answered so far begin the protocol, and each call is awaited
\* only when those before it were answered: the shape batch first, the
\* fetch once the document holds the table, the fill batch once a table
\* was fetched.
C38_InOrder ==
    /\ table.log = SubSeq(TableProtocol, 1, Len(table.log))
    /\ table.pc = "shape" =>
         table.log = <<>> /\ table.doc = NoTableDoc /\ table.fill = <<>>
    /\ table.pc = "get" =>
         table.log = <<"shape">> /\ table.doc.cells # <<>> /\ table.fill = <<>>
    /\ table.pc = "fill" => table.log = <<"shape", "get">>
    /\ table.doc = NoTableDoc => table.log = <<>> /\ table.tableRows = <<>>

\* The fill batch holds nothing but what the fetched structure gives: it
\* is built from the fetched rows, and each insertion's index is a fetched
\* cell offset plus one.
C38_FillFromFetched ==
    table.fill # <<>> =>
        /\ table.tableRows # <<>>
        /\ table.fill = fillRequests(table.tableRows, table.headers, table.rows)
        /\ \A k \in DOMAIN table.fill :
             table.fill[k].kind = "insertText" =>
                table.fill[k].startIndex - 1 \in FetchedOffsets(table.tableRows)

\* No table in the response: no fill batch is built or sent.
C38_NoTableNoFill ==
    table.tableRows = <<>> =>
        table.fill = <<>> /\ table.pc # "fill" /\ table.log # TableProtocol

\* The fetched structure and the fill batch are set in the step that
\* answers the fetch, from the document as the shape batch left it.
C38_SetOnFetch ==
    (table'.tableRows # table.tableRows \/ table'.fill # table.fill) =>
        /\ table.pc = "get"
        /\ table.log = <<"shape">>
        /\ table'.tableRows = tableRowsOf(table.doc)
        /\ table'.doc = table.doc

\* C38: insertAndFillTable follows a two-phase protocol: the shape batch
\* is applied first, the document is fetched again only after that batch
\* succeeded, the fill batch is built only from the fetched cell offsets
\* and sent afterwards, and when the fetch finds no table no fill batch is
\* sent.
C38_TwoPhase ==
    /\ [](C38_InOrder /\ C38_FillFromFetched /\ C38_NoTableNoFill)
    /\ [][C38_SetOnFetch]_vars

\* A table shaped, fetched and filled, the fill batch on its second try.
C38_Witness ==
    /\ table.pc = "returned"
    /\ table.log = TableProtocol
    /\ table.fill # <<>>
    /\ table.f.invocations = 2

\* A fetch that found no table: the invocation returned after two calls.
C38_WitnessNoTable ==
    /\ table.pc = "returned"
    /\ table.log = <<"shape", "get">>
    /\ table.doc.cells # <<>>

\* The cell the k-th insertion of the fill batch is meant for: the header
\* cells of row 1 from left to right, then the rows in order.
IntendedCell(k) ==
    LET columns == Len(table.headers) IN
    IF k <= columns THEN <<1, k>>
    ELSE <<2 + ((k - columns - 1) \div columns), 1 + ((k - columns - 1) % columns)>>

\* C39: every insertion of the fill batch lands inside the cell it is
\* meant for, the text put in by the earlier insertions of the same batch
\* taken into account.
C39_LandsInItsCell ==
    \A k \in DOMAIN table.landed : table.landed[k] = IntendedCell(k)

\* The first insertion of a fill batch does land in its cell.
C39_FirstLands ==
    table.landed # <<>> => table.landed[1] = <<1, 1>>

\* ----------------------------------------------------- termination claim
\* Nothing of the run is left to do: main has ended with an outcome for
\* every file found and no model call is awaited, or the withRetry
\* invocation has returned or thrown.
Ended ==
    IF call = IdleCall
    THEN /\ pc = "exited"
         /\ Len(results) = Len(files)
         /\ \A g \in Gens : g.st # "inflight"
    ELSE call.f.st \in {"returned", "threw"}

\* C40: when every model call and every remote call settles, each
\* callJsonModel invocation, each withRetry invocation and each per-file
\* pipeline ends, and runPipeline returns with an outcome for every file:
\* no retry loop goes on without bound.
C40_Terminates == <>[]Ended


\* Every loop has ended: main has exited with no model call awaited, or
\* the withRetry invocation has returned or thrown.
LoopsEnded ==
    IF call = IdleCall
    THEN pc = "exited" /\ \A g \in Gens : g.st # "inflight"
    ELSE call.f.st \in {"returned", "threw"}

\* The termination of C40 by itself: every scheduled run ends.
C40_EveryLoopEnds == <>[]LoopsEnded

\* C40 holds for the runPipeline revision that catches a failed read.
C40_TerminatesWhenReadsAreCaught == (runPipelineRev = 2) => <>[]Ended

====
